---------------------------- MODULE Spec2Model ----------------------------
(***************************************************************************)
(* Model of src/src/utils/BrowserNavigation.ts: the URL query-parameter    *)
(* codec (getQueryParams), getUrlSegments, modifyQueryParams, isIpAddress  *)
(* and extractFinalPathnameSegmentFromUrl, with the parts of the           *)
(* JavaScript platform they rest on (encodeURIComponent, URLSearchParams,  *)
(* JSON.parse / JSON.stringify, String.prototype.split, Set, the `in`      *)
(* operator, `new URL`, regular expressions, History.pushState).           *)
(*                                                                         *)
(* A JavaScript string is a sequence of one-character strings.  A          *)
(* JavaScript value is a record [k |-> kind, v |-> payload]; an object's   *)
(* payload is the sequence of its own enumerable <<key, value>> entries in *)
(* property order.                                                         *)
(***************************************************************************)
EXTENDS Integers, Sequences, FiniteSets, TLC

VARIABLES
    pc,         \* "idle": no call in progress; "returned": `call` has returned `result`
    call,       \* the call that returned last (its name and arguments)
    result,     \* what it returned, or the error it threw
    location,   \* self.location.href: the URL of the page
    history,    \* the session history: the URLs pushed by history.pushState
    argument,   \* the object the caller passed, as the caller finds it after the call
    now,        \* the time in milliseconds
    timers,     \* the callbacks setTimeout holds, each with the time it is due
    timeout,    \* `timeout` of the closure debounce returned
    wasCalled,  \* `wasCalled` of the closure throttle returned
    callOnFirstFuncCall,    \* the option the debounced function was made with
    trace,      \* the calls of the wrapper and the invocations of func so far
    importImageAsyncCache,  \* `importImageAsyncCache`: image name to { imageSrc, base64 }
    promises,   \* the calls of importAssetAsync and importImageAsync, each where it stands
    registered, \* the promise of navigator.serviceWorker.register: "none" before the call
    workers,    \* the workers of the registration: state, and whether onstatechange is set
    controller, \* navigator.serviceWorker.controller: whether a worker controls the page
    hasBroadcastChannel,    \* whether the browser defines BroadcastChannel
    posted,     \* the messages posted on the broadcast channel
    uncaught    \* the errors that left an event handler

codecVars == <<pc, call, result, location, history, argument>>

timerVars == <<now, timers, timeout, wasCalled, callOnFirstFuncCall, trace>>

assetVars == <<importImageAsyncCache, promises>>

workerVars == <<registered, workers, controller, hasBroadcastChannel, posted, uncaught>>

\* What the calls of the URL utilities leave as it is.
outsideCodec == <<timerVars, assetVars, workerVars>>

\* What a timer and a wrapped function leave as it is.
outsideTimers == <<codecVars, assetVars, workerVars>>

vars == <<pc, call, result, location, history, argument,
          now, timers, timeout, wasCalled, callOnFirstFuncCall, trace,
          importImageAsyncCache, promises,
          registered, workers, controller, hasBroadcastChannel, posted, uncaught>>

---------------------------------------------------------------------------
(* Strings                                                                 *)

\* The printable ASCII characters, code 32 (space) to 126 (~), in code order.
AsciiPrintable ==
    <<" ", "!", "\"", "#", "$", "%", "&", "'", "(", ")", "*", "+", ",", "-", ".", "/",
      "0", "1", "2", "3", "4", "5", "6", "7", "8", "9", ":", ";", "<", "=", ">", "?",
      "@", "A", "B", "C", "D", "E", "F", "G", "H", "I", "J", "K", "L", "M", "N", "O",
      "P", "Q", "R", "S", "T", "U", "V", "W", "X", "Y", "Z", "[", "\\", "]", "^", "_",
      "U+0060", "a", "b", "c", "d", "e", "f", "g", "h", "i", "j", "k", "l", "m", "n", "o",
      "p", "q", "r", "s", "t", "u", "v", "w", "x", "y", "z", "{", "|", "}", "~">>

\* The character a byte outside printable ASCII decodes to (U+FFFD stands for all).
ReplacementChar == "U+FFFD"

Digits == <<"0", "1", "2", "3", "4", "5", "6", "7", "8", "9">>

IsDigit(c) == \E i \in 1..10 : Digits[i] = c

DigitValue(c) == (CHOOSE i \in 1..10 : Digits[i] = c) - 1

\* The UTF-16 code unit of a character (String.prototype.charCodeAt).
CodeOf(c) ==
    IF c = "\n" THEN 10
    ELSE IF \E i \in 1..95 : AsciiPrintable[i] = c
         THEN 31 + (CHOOSE i \in 1..95 : AsciiPrintable[i] = c)
         ELSE 65533

\* String.fromCharCode for one byte.
CharOf(code) ==
    IF code = 10 THEN "\n"
    ELSE IF code \in 32..126 THEN AsciiPrintable[code - 31]
         ELSE ReplacementChar

RECURSIVE Join(_, _)
\* Array.prototype.join on strings: the strings of `parts` with `sep` between them.
Join(parts, sep) ==
    IF Len(parts) = 0 THEN <<>>
    ELSE IF Len(parts) = 1 THEN parts[1]
         ELSE parts[1] \o sep \o Join(Tail(parts), sep)

\* Whether `sub` occurs in `s` at position i.
OccursAt(s, sub, i) ==
    /\ i >= 1
    /\ i + Len(sub) - 1 <= Len(s)
    /\ SubSeq(s, i, i + Len(sub) - 1) = sub

\* String.prototype.indexOf from position `from`, 1-based; 0 when `sub` does not occur.
IndexOfFrom(s, sub, from) ==
    IF \E i \in from..Len(s) : OccursAt(s, sub, i)
    THEN CHOOSE i \in from..Len(s) :
            /\ OccursAt(s, sub, i)
            /\ \A j \in from..(i - 1) : ~OccursAt(s, sub, j)
    ELSE 0

RECURSIVE SplitNonEmpty(_, _)
\* String.prototype.split on a separator of at least one character.
SplitNonEmpty(s, sep) ==
    LET i == IndexOfFrom(s, sep, 1)
    IN  IF i = 0 THEN <<s>>
        ELSE <<SubSeq(s, 1, i - 1)>> \o SplitNonEmpty(SubSeq(s, i + Len(sep), Len(s)), sep)

\* String.prototype.split: on the empty separator the string falls into its
\* characters, and the empty string into no part at all.
Split(s, sep) ==
    IF Len(sep) = 0 THEN [i \in 1..Len(s) |-> <<s[i]>>]
    ELSE SplitNonEmpty(s, sep)

---------------------------------------------------------------------------
(* JavaScript values                                                       *)

Str(s) == [k |-> "string", v |-> s]
Num(n) == [k |-> "number", v |-> n]
Bool(b) == [k |-> "boolean", v |-> b]
Null == [k |-> "null", v |-> 0]
Undefined == [k |-> "undefined", v |-> 0]
\* An array: the sequence of its elements.
Arr(xs) == [k |-> "array", v |-> xs]
\* A plain object: the sequence of its own <<key, value>> entries, in property order.
Obj(es) == [k |-> "object", v |-> es]
\* A function object, such as the methods every object inherits from Object.prototype.
Func(name) == [k |-> "function", v |-> name]
\* A thrown error: its constructor's name and its message (a sequence of pieces).
Throw(name, message) == [k |-> "throw", v |-> <<name, message>>]

IsThrow(x) == x.k = "throw"

\* The typeof operator.
TypeOf(x) ==
    IF x.k \in {"null", "array", "object"} THEN "object" ELSE x.k

\* Array.isArray.
IsArray(x) == x.k = "array"

\* ToBoolean: what `if (x)` and `x || y` test.
Truthy(x) ==
    CASE x.k = "string" -> Len(x.v) > 0
      [] x.k = "number" -> x.v # 0
      [] x.k = "boolean" -> x.v
      [] x.k \in {"null", "undefined"} -> FALSE
      [] OTHER -> TRUE

RECURSIVE NatToStr(_)
NatToStr(n) ==
    IF n < 10 THEN <<Digits[n + 1]>>
    ELSE NatToStr(n \div 10) \o <<Digits[(n % 10) + 1]>>

\* Number.prototype.toString of an integer.
NumToStr(n) == IF n < 0 THEN <<"-">> \o NatToStr(0 - n) ELSE NatToStr(n)

RECURSIVE ToStr(_)
\* The ToString conversion that template literals, encodeURIComponent and
\* URLSearchParams apply; an array's string is its elements joined by ",",
\* null and undefined elements giving "".
ToStr(x) ==
    CASE x.k = "string" -> x.v
      [] x.k = "number" -> NumToStr(x.v)
      [] x.k = "boolean" -> IF x.v THEN <<"t", "r", "u", "e">> ELSE <<"f", "a", "l", "s", "e">>
      [] x.k = "null" -> <<"n", "u", "l", "l">>
      [] x.k = "undefined" -> <<"u", "n", "d", "e", "f", "i", "n", "e", "d">>
      [] x.k = "array" ->
            Join([i \in 1..Len(x.v) |->
                    IF x.v[i].k \in {"null", "undefined"} THEN <<>> ELSE ToStr(x.v[i])],
                 <<",">>)
      [] x.k = "object" ->
            <<"[", "o", "b", "j", "e", "c", "t", " ", "O", "b", "j", "e", "c", "t", "]">>
      [] OTHER -> <<"f", "u", "n", "c", "t", "i", "o", "n">>

\* Array.prototype.join: null and undefined elements give "".
ArrayJoin(xs, sep) ==
    Join([i \in 1..Len(xs) |->
            IF xs[i].k \in {"null", "undefined"} THEN <<>> ELSE ToStr(xs[i])],
         sep)

(* Objects: own properties in property order, which is the integer-like   *)
(* keys in ascending order, then the other keys in insertion order.        *)

\* Whether a key is an array index ("0", "7", "12": canonical decimal numerals).
IsIndexKey(key) ==
    /\ Len(key) > 0
    /\ \A i \in 1..Len(key) : IsDigit(key[i])
    /\ (Len(key) > 1 => key[1] # "0")

RECURSIVE StrToNat(_)
StrToNat(s) ==
    IF Len(s) = 0 THEN 0
    ELSE 10 * StrToNat(SubSeq(s, 1, Len(s) - 1)) + DigitValue(s[Len(s)])

\* Object.prototype.hasOwnProperty on the entries of an object.
HasOwn(es, key) == \E i \in 1..Len(es) : es[i][1] = key

\* The own property `key` of an object that has it.
GetOwn(es, key) == es[CHOOSE i \in 1..Len(es) : es[i][1] = key][2]

\* es[key] = value: replaces the value of an own property in place, puts a new
\* index key among the index keys in ascending order, and any other new key last.
SetOwn(es, key, value) ==
    IF HasOwn(es, key)
    THEN [i \in 1..Len(es) |-> IF es[i][1] = key THEN <<key, value>> ELSE es[i]]
    ELSE IF IsIndexKey(key)
         THEN LET before == {i \in 1..Len(es) :
                                /\ IsIndexKey(es[i][1])
                                /\ StrToNat(es[i][1]) < StrToNat(key)}
                  n == Cardinality(before)
              IN  SubSeq(es, 1, n) \o <<<<key, value>>>> \o SubSeq(es, n + 1, Len(es))
         ELSE Append(es, <<key, value>>)

\* delete es[key].
DeleteOwn(es, key) ==
    LET keep == {i \in 1..Len(es) : es[i][1] # key}
        idx(n) == CHOOSE i \in keep : Cardinality({j \in keep : j < i}) = n - 1
    IN  [n \in 1..Cardinality(keep) |-> es[idx(n)]]

RECURSIVE AssignAll(_, _)
\* { ...target, ...source }: every own entry of `source` set on `target` in order.
AssignAll(target, source) ==
    IF Len(source) = 0 THEN target
    ELSE AssignAll(SetOwn(target, source[1][1], source[1][2]), Tail(source))

\* The names of the properties a plain object inherits from Object.prototype.
ObjectPrototypeKeys ==
    { <<"c", "o", "n", "s", "t", "r", "u", "c", "t", "o", "r">>,
      <<"h", "a", "s", "O", "w", "n", "P", "r", "o", "p", "e", "r", "t", "y">>,
      <<"i", "s", "P", "r", "o", "t", "o", "t", "y", "p", "e", "O", "f">>,
      <<"p", "r", "o", "p", "e", "r", "t", "y", "I", "s", "E", "n", "u", "m", "e", "r", "a", "b", "l", "e">>,
      <<"t", "o", "L", "o", "c", "a", "l", "e", "S", "t", "r", "i", "n", "g">>,
      <<"t", "o", "S", "t", "r", "i", "n", "g">>,
      <<"v", "a", "l", "u", "e", "O", "f">> }

\* The `in` operator on a plain object: own and inherited properties alike.
In(es, key) == HasOwn(es, key) \/ key \in ObjectPrototypeKeys

\* es[key] read on a plain object: an own property, else an inherited method,
\* else undefined.
Get(es, key) ==
    IF HasOwn(es, key) THEN GetOwn(es, key)
    ELSE IF key \in ObjectPrototypeKeys THEN Func(key)
         ELSE Undefined

---------------------------------------------------------------------------
(* Percent-encoding and URLSearchParams                                    *)

HexDigits == <<"0", "1", "2", "3", "4", "5", "6", "7", "8", "9", "A", "B", "C", "D", "E", "F">>

LowerHexDigits == <<"a", "b", "c", "d", "e", "f">>

IsHexDigit(c) ==
    \/ \E i \in 1..16 : HexDigits[i] = c
    \/ \E i \in 1..6 : LowerHexDigits[i] = c

HexValue(c) ==
    IF \E i \in 1..16 : HexDigits[i] = c
    THEN (CHOOSE i \in 1..16 : HexDigits[i] = c) - 1
    ELSE 9 + (CHOOSE i \in 1..6 : LowerHexDigits[i] = c)

\* "%" and the two upper-case hex digits of a byte.
PercentByte(b) == <<"%", HexDigits[(b \div 16) + 1], HexDigits[(b % 16) + 1]>>

\* The characters encodeURIComponent leaves as they are: A-Z a-z 0-9 - _ . ! ~ * ' ( )
IsUriUnreserved(c) ==
    LET n == CodeOf(c)
    IN  \/ n \in 48..57
        \/ n \in 65..90
        \/ n \in 97..122
        \/ c \in {"-", "_", ".", "!", "~", "*", "'", "(", ")"}

\* The percent-encoding of one character: its UTF-8 bytes.
EncodeChar(c) ==
    IF IsUriUnreserved(c) THEN <<c>>
    ELSE IF CodeOf(c) < 128 THEN PercentByte(CodeOf(c))
         ELSE PercentByte(239) \o PercentByte(191) \o PercentByte(189)

RECURSIVE encodeURIComponent(_)
\* encodeURIComponent of a string.
encodeURIComponent(s) ==
    IF Len(s) = 0 THEN <<>>
    ELSE EncodeChar(s[1]) \o encodeURIComponent(Tail(s))

RECURSIVE PercentDecode(_)
\* Percent-decoding as URLSearchParams does it: "%" and two hex digits give the
\* byte's character, any other "%" stays.
PercentDecode(s) ==
    IF Len(s) = 0 THEN <<>>
    ELSE IF s[1] = "%" /\ Len(s) >= 3 /\ IsHexDigit(s[2]) /\ IsHexDigit(s[3])
         THEN <<CharOf(16 * HexValue(s[2]) + HexValue(s[3]))>>
                 \o PercentDecode(SubSeq(s, 4, Len(s)))
         ELSE <<s[1]>> \o PercentDecode(Tail(s))

\* "+" stands for a space in application/x-www-form-urlencoded.
PlusToSpace(s) == [i \in 1..Len(s) |-> IF s[i] = "+" THEN " " ELSE s[i]]

FormDecode(s) == PercentDecode(PlusToSpace(s))

RECURSIVE FormPairs(_)
\* The <<name, value>> entries of the "&"-separated pieces, empty pieces skipped;
\* a piece is cut at its first "=".
FormPairs(pieces) ==
    IF Len(pieces) = 0 THEN <<>>
    ELSE LET piece == pieces[1]
             eq == IndexOfFrom(piece, <<"=">>, 1)
             name == IF eq = 0 THEN piece ELSE SubSeq(piece, 1, eq - 1)
             value == IF eq = 0 THEN <<>> ELSE SubSeq(piece, eq + 1, Len(piece))
         IN  (IF Len(piece) = 0 THEN <<>>
              ELSE <<<<FormDecode(name), FormDecode(value)>>>>)
             \o FormPairs(Tail(pieces))

\* [ ...new URLSearchParams(string).entries() ]: one leading "?" is dropped.
URLSearchParamsOfString(s) ==
    LET body == IF Len(s) > 0 /\ s[1] = "?" THEN Tail(s) ELSE s
    IN  FormPairs(SplitNonEmpty(body, <<"&">>))

\* [ ...new URLSearchParams(pairs).entries() ] for pairs of two values each: both
\* are converted to strings.
URLSearchParamsOfPairs(pairs) ==
    [i \in 1..Len(pairs) |-> <<ToStr(pairs[i][1]), ToStr(pairs[i][2])>>]

---------------------------------------------------------------------------
(* JSON                                                                    *)

RECURSIVE JsonQuoteChars(_)
\* The characters of a string inside a JSON string literal.
JsonQuoteChars(s) ==
    IF Len(s) = 0 THEN <<>>
    ELSE (CASE s[1] = "\"" -> <<"\\", "\"">>
            [] s[1] = "\\" -> <<"\\", "\\">>
            [] s[1] = "\n" -> <<"\\", "n">>
            [] OTHER -> <<s[1]>>)
         \o JsonQuoteChars(Tail(s))

JsonQuote(s) == <<"\"">> \o JsonQuoteChars(s) \o <<"\"">>

RECURSIVE JSONstringify(_)
\* JSON.stringify of a value that is not undefined or a function: those are left
\* out of an object and written as null in an array.
JSONstringify(x) ==
    CASE x.k = "string" -> JsonQuote(x.v)
      [] x.k = "number" -> NumToStr(x.v)
      [] x.k = "boolean" -> ToStr(x)
      [] x.k = "null" -> ToStr(x)
      [] x.k = "array" ->
            <<"[">>
            \o Join([i \in 1..Len(x.v) |->
                        IF x.v[i].k \in {"undefined", "function"}
                        THEN ToStr(Null) ELSE JSONstringify(x.v[i])],
                    <<",">>)
            \o <<"]">>
      [] OTHER ->
            LET es == x.v
                keep == {i \in 1..Len(es) : es[i][2].k \notin {"undefined", "function"}}
                idx(n) == CHOOSE i \in keep : Cardinality({j \in keep : j < i}) = n - 1
            IN  <<"{">>
                \o Join([n \in 1..Cardinality(keep) |->
                            JsonQuote(es[idx(n)][1]) \o <<":">> \o JSONstringify(es[idx(n)][2])],
                        <<",">>)
                \o <<"}">>

\* JSON white space (of the characters modelled: space and line feed).
IsJsonWs(c) == c \in {" ", "\n"}

RECURSIVE SkipWs(_, _)
\* The first position from i on that holds no white space (Len(s) + 1 at the end).
SkipWs(s, i) ==
    IF i <= Len(s) /\ IsJsonWs(s[i]) THEN SkipWs(s, i + 1) ELSE i

\* A parse step's outcome: ok, the value read, and the position after it.
ParseOk(val, next) == [ok |-> TRUE, val |-> val, next |-> next]
ParseFail == [ok |-> FALSE, val |-> Undefined, next |-> 0]

RECURSIVE DigitsEnd(_, _)
\* The position after the run of digits starting at i.
DigitsEnd(s, i) ==
    IF i <= Len(s) /\ IsDigit(s[i]) THEN DigitsEnd(s, i + 1) ELSE i

\* A JSON number at i: "-"? then "0" or a numeral without leading zero.  Numbers
\* with a fraction or an exponent are outside the values modelled (integers) and
\* are refused.
ParseNumber(s, i) ==
    LET neg == s[i] = "-"
        j == IF neg THEN i + 1 ELSE i
        e == DigitsEnd(s, j)
    IN  IF e = j THEN ParseFail
        ELSE IF s[j] = "0" /\ e > j + 1 THEN ParseOk(Num(0), j + 1)
        ELSE IF e <= Len(s) /\ s[e] \in {".", "e", "E"} THEN ParseFail
        ELSE ParseOk(Num(IF neg THEN 0 - StrToNat(SubSeq(s, j, e - 1))
                         ELSE StrToNat(SubSeq(s, j, e - 1))), e)

RECURSIVE ParseStringRest(_, _, _)
\* The rest of a JSON string literal from i on, `acc` read so far.  The escapes
\* modelled are \" \\ \/ and \n.
ParseStringRest(s, i, acc) ==
    IF i > Len(s) THEN ParseFail
    ELSE IF s[i] = "\"" THEN ParseOk(Str(acc), i + 1)
    ELSE IF s[i] = "\n" THEN ParseFail
    ELSE IF s[i] = "\\"
         THEN IF i + 1 > Len(s) \/ s[i + 1] \notin {"\"", "\\", "/", "n"} THEN ParseFail
              ELSE ParseStringRest(s, i + 2,
                                   Append(acc, IF s[i + 1] = "n" THEN "\n" ELSE s[i + 1]))
    ELSE ParseStringRest(s, i + 1, Append(acc, s[i]))

\* The literal `word` at i.
ParseLiteral(s, i, word, val) ==
    IF OccursAt(s, word, i) THEN ParseOk(val, i + Len(word)) ELSE ParseFail

\* The literal a JSON text may start with at its first letter.
LiteralWord(c) ==
    CASE c = "t" -> <<"t", "r", "u", "e">>
      [] c = "f" -> <<"f", "a", "l", "s", "e">>
      [] OTHER -> <<"n", "u", "l", "l">>

LiteralValue(c) ==
    CASE c = "t" -> Bool(TRUE)
      [] c = "f" -> Bool(FALSE)
      [] OTHER -> Null

(* The parser of arrays and objects.  Each step hands what it has read to  *)
(* the next step as a parameter.                                           *)

RECURSIVE ParseValueAt(_, _)

\* The JSON value that starts at the first position from i on holding no white space.
ParseValue(s, i) == ParseValueAt(s, SkipWs(s, i))

\* After an element `r` of an array and white space, at j: "," and the next
\* element, or "]".
ParseArrayNext(s, acc, j) ==
    IF j > Len(s) THEN ParseFail
    ELSE IF s[j] = "," THEN [more |-> TRUE, acc |-> acc, next |-> j + 1]
    ELSE IF s[j] = "]" THEN ParseOk(Arr(acc), j + 1)
    ELSE ParseFail

RECURSIVE ParseArrayRest(_, _, _)

\* An element `r` has been read: it joins `acc`, and the array goes on or ends.
ParseArrayStep(s, r, acc) ==
    IF ~r.ok THEN ParseFail
    ELSE ParseArrayNext(s, Append(acc, r.val), SkipWs(s, r.next))

ParseArrayMore(s, step) ==
    IF "more" \in DOMAIN step THEN ParseArrayRest(s, step.next, step.acc) ELSE step

\* The elements of an array from i on (a value is due at i), `acc` read so far.
ParseArrayRest(s, i, acc) == ParseArrayMore(s, ParseArrayStep(s, ParseValueAt(s, SkipWs(s, i)), acc))

\* After "[" and white space, at k: "]" or the elements.
ParseArrayOpen(s, k) ==
    IF k <= Len(s) /\ s[k] = "]" THEN ParseOk(Arr(<<>>), k + 1)
    ELSE ParseArrayRest(s, k, <<>>)

\* After a member's key `key` and white space, at c: ":" and the member's value.
ParseMemberValue(s, key, c) ==
    IF key.ok /\ c <= Len(s) /\ s[c] = ":" THEN ParseValueAt(s, SkipWs(s, c + 1)) ELSE ParseFail

\* After a member and white space, at j: "," and the next member, or "}".
ParseObjectNext(s, acc, j) ==
    IF j > Len(s) THEN ParseFail
    ELSE IF s[j] = "," THEN [more |-> TRUE, acc |-> acc, next |-> j + 1]
    ELSE IF s[j] = "}" THEN ParseOk(Obj(acc), j + 1)
    ELSE ParseFail

\* A member's key and value `r` have been read: a key read twice keeps its place
\* and takes the later value.
ParseObjectStep(s, key, r, acc) ==
    IF ~r.ok THEN ParseFail
    ELSE ParseObjectNext(s, SetOwn(acc, key.val.v, r.val), SkipWs(s, r.next))

\* The member whose key has been read as `key`.
ParseMember(s, key, acc) ==
    ParseObjectStep(s, key,
                    ParseMemberValue(s, key, IF key.ok THEN SkipWs(s, key.next) ELSE 0),
                    acc)

\* The key of a member, due at k.
ParseKey(s, k) ==
    IF k <= Len(s) /\ s[k] = "\"" THEN ParseStringRest(s, k + 1, <<>>) ELSE ParseFail

RECURSIVE ParseObjectRest(_, _, _)

ParseObjectMore(s, step) ==
    IF "more" \in DOMAIN step THEN ParseObjectRest(s, step.next, step.acc) ELSE step

\* The members of an object from i on (a key is due at i), `acc` read so far.
ParseObjectRest(s, i, acc) ==
    ParseObjectMore(s, ParseMember(s, ParseKey(s, SkipWs(s, i)), acc))

\* After "{" and white space, at k: "}" or the members.
ParseObjectOpen(s, k) ==
    IF k <= Len(s) /\ s[k] = "}" THEN ParseOk(Obj(<<>>), k + 1)
    ELSE ParseObjectRest(s, k, <<>>)

\* The JSON value that starts at j.
ParseValueAt(s, j) ==
    IF j > Len(s) THEN ParseFail
    ELSE CASE s[j] = "{" -> ParseObjectOpen(s, SkipWs(s, j + 1))
           [] s[j] = "[" -> ParseArrayOpen(s, SkipWs(s, j + 1))
           [] s[j] = "\"" -> ParseStringRest(s, j + 1, <<>>)
           [] s[j] = "-" \/ IsDigit(s[j]) -> ParseNumber(s, j)
           [] s[j] \in {"t", "f", "n"} -> ParseLiteral(s, j, LiteralWord(s[j]), LiteralValue(s[j]))
           [] OTHER -> ParseFail

\* The value a parse gave when it read the whole string, else a SyntaxError.
WholeText(s, r) ==
    IF r.ok /\ SkipWs(s, r.next) > Len(s) THEN r.val
    ELSE Throw("SyntaxError", <<"Unexpected token in JSON">>)

\* JSON.parse: the value when the whole string is one JSON text, else a SyntaxError.
JSONparse(s) == WholeText(s, ParseValue(s, 1))

---------------------------------------------------------------------------
(* getQueryParams                                                          *)

\* The line terminators that "." of a regular expression does not match.
IsLineTerminator(c) == c \in {"\n"}

\* fromString.match(/([?#].*$)/i)?.[0] ?? '': the text from the first "?" or "#"
\* that no line terminator follows.
queryParamHashStringOf(fromString) ==
    LET starts == {i \in 1..Len(fromString) :
                      /\ fromString[i] \in {"?", "#"}
                      /\ \A j \in (i + 1)..Len(fromString) : ~IsLineTerminator(fromString[j])}
    IN  IF starts = {} THEN <<>>
        ELSE SubSeq(fromString, CHOOSE i \in starts : \A j \in starts : i <= j, Len(fromString))

\* const getEncodedKeyValStr = (key, val) => `${encodeURIComponent(key)}=${encodeURIComponent(val)}`
getEncodedKeyValStr(key, val) ==
    encodeURIComponent(ToStr(key)) \o <<"=">> \o encodeURIComponent(ToStr(val))

\* A variant of encodeEntry that never joins: a sequence is always repeated pairs.
encodeEntryNeverJoined(queryKey, queryValue, delimiter) ==
    IF IsArray(queryValue)
    THEN Join([i \in 1..Len(queryValue.v) |->
                   getEncodedKeyValStr(Str(queryKey), queryValue.v[i])],
              <<"&">>)
    ELSE IF queryValue.k \in {"null", "undefined"}
         THEN getEncodedKeyValStr(Str(queryKey), Str(<<>>))
    ELSE IF TypeOf(queryValue) = "object"
         THEN getEncodedKeyValStr(Str(queryKey), Str(JSONstringify(queryValue)))
    ELSE getEncodedKeyValStr(Str(queryKey), queryValue)

\* A variant of encodeEntry that writes null and undefined as their names.
encodeEntryNullAsText(queryKey, queryValue, delimiter) ==
    IF IsArray(queryValue)
    THEN IF Truthy(delimiter)
         THEN getEncodedKeyValStr(Str(queryKey), Str(ArrayJoin(queryValue.v, ToStr(delimiter))))
         ELSE Join([i \in 1..Len(queryValue.v) |->
                        getEncodedKeyValStr(Str(queryKey), queryValue.v[i])],
                   <<"&">>)
    ELSE IF TypeOf(queryValue) = "object" /\ queryValue.k # "null"
         THEN getEncodedKeyValStr(Str(queryKey), Str(JSONstringify(queryValue)))
    ELSE getEncodedKeyValStr(Str(queryKey), queryValue)

\* The callback of queryParamEntries.map: the text of one entry of the object.
encodeEntry(queryKey, queryValue, delimiter) ==
    IF IsArray(queryValue)
    THEN IF Truthy(delimiter)
         THEN getEncodedKeyValStr(Str(queryKey), Str(ArrayJoin(queryValue.v, ToStr(delimiter))))
         ELSE Join([i \in 1..Len(queryValue.v) |->
                        getEncodedKeyValStr(Str(queryKey), queryValue.v[i])],
                   <<"&">>)
    ELSE IF queryValue.k \in {"null", "undefined"}
         THEN getEncodedKeyValStr(Str(queryKey), Str(<<>>))
    ELSE IF TypeOf(queryValue) = "object"
         THEN getEncodedKeyValStr(Str(queryKey), Str(JSONstringify(queryValue)))
    ELSE getEncodedKeyValStr(Str(queryKey), queryValue)

\* The `if (fromObj)` branch: the search+hash string of an object.
encodeQueryParams(fromObj, delimiter) ==
    LET h == Get(fromObj, <<"#">>)
        hash == IF Truthy(h) THEN h ELSE Str(<<>>)
        entries == DeleteOwn(fromObj, <<"#">>)
        queryString ==
            IF Len(entries) > 0
            THEN <<"?">> \o Join([i \in 1..Len(entries) |->
                                    encodeEntry(entries[i][1], entries[i][2], delimiter)],
                                 <<"&">>)
            ELSE <<>>
    IN  Str(queryString \o (IF Truthy(hash) THEN <<"#">> \o ToStr(hash) ELSE <<>>))

\* A variant of TryReturn without the catch: what the try block gave, a throw included.
TryReturnUncaught(parsed, str) == parsed

\* const attemptParseJson = (str) => { try { return JSON.parse(str); } catch (e) {} return str; }
\* `parsed` is what the try block gave: its value, or on a throw the string itself.
TryReturn(parsed, str) == IF IsThrow(parsed) THEN Str(str) ELSE parsed

attemptParseJson(str) == TryReturn(JSONparse(str), str)

\* Whether a Set holds two values as one (SameValueZero): primitives by value.
\* Objects, arrays and functions are compared by reference, and no two values the
\* reducer meets are the same reference: JSON.parse returns a fresh one each time.
SameValueZero(a, b) ==
    /\ a.k \in {"string", "number", "boolean", "null", "undefined"}
    /\ a = b

RECURSIVE SetOf(_)
\* [ ...new Set(xs) ]: each value once, in the order of first insertion.
SetOf(xs) ==
    IF Len(xs) = 0 THEN <<>>
    ELSE LET init == SetOf(SubSeq(xs, 1, Len(xs) - 1))
             last == xs[Len(xs)]
         IN  IF \E i \in 1..Len(init) : SameValueZero(init[i], last)
             THEN init ELSE Append(init, last)

\* Lines 124-140: the value of one entry, split on the delimiter when one is given,
\* then parsed.
entryValue(raw, delimiter) ==
    IF delimiter.k \notin {"null", "undefined"}
    THEN LET parts == Split(raw, ToStr(delimiter))
         IN  IF Len(parts) = 0 THEN attemptParseJson(<<>>)
             ELSE IF Len(parts) = 1 THEN attemptParseJson(parts[1])
             ELSE Arr([i \in 1..Len(parts) |-> attemptParseJson(parts[i])])
    ELSE attemptParseJson(raw)

\* A variant of mergeEntry that gives a key whose values are all the same that one
\* value, not a sequence of it.
mergeEntryCollapsing(queryParams, key, value) ==
    IF In(queryParams, key)
    THEN LET values == IF IsArray(value) THEN value.v ELSE <<value>>
             old == Get(queryParams, key)
             merged == SetOf((IF IsArray(old) THEN old.v ELSE <<old>>) \o values)
         IN  SetOwn(queryParams, key, IF Len(merged) = 1 THEN merged[1] ELSE Arr(merged))
    ELSE SetOwn(queryParams, key, value)

\* Lines 142-165: the entry's value joins the values the key has, or becomes the
\* key's value.
mergeEntry(queryParams, key, value) ==
    IF In(queryParams, key)
    THEN LET values == IF IsArray(value) THEN value.v ELSE <<value>>
             old == Get(queryParams, key)
         IN  SetOwn(queryParams, key,
                    Arr(SetOf((IF IsArray(old) THEN old.v ELSE <<old>>) \o values)))
    ELSE SetOwn(queryParams, key, value)

\* The reducer's step for one entry (lines 123-167).
reduceEntry(queryParams, key, raw, delimiter) ==
    mergeEntry(queryParams, key, entryValue(raw, delimiter))

RECURSIVE reduceEntries(_, _, _)
\* urlSearchParamsEntries.reduce(..., queryParamsObj).
reduceEntries(queryParams, entries, delimiter) ==
    IF Len(entries) = 0 THEN queryParams
    ELSE reduceEntries(reduceEntry(queryParams, entries[1][1], entries[1][2], delimiter),
                       Tail(entries), delimiter)

\* The string branch (lines 104-111 and the reducer): the object of a search+hash string.
decodeString(fromString, delimiter) ==
    LET parts == Split(queryParamHashStringOf(fromString), <<"#">>)
        urlSearchQuery == parts[1]
        queryParamsObj == IF Len(parts) >= 2 /\ Len(parts[2]) > 0
                          THEN <<<<<<"#">>, Str(parts[2])>>>> ELSE <<>>
    IN  Obj(reduceEntries(queryParamsObj, URLSearchParamsOfString(urlSearchQuery), delimiter))

\* Whether `[ key, value ] = row` can destructure the row: it must be iterable.
IsIterable(row) == row.k \in {"array", "string"}

\* The i-th value that destructuring takes from a row, undefined past its end.
RowItem(row, i) ==
    IF i > Len(row.v) THEN Undefined
    ELSE IF row.k = "string" THEN Str(<<row.v[i]>>) ELSE row.v[i]

\* The matrix branch (lines 93-102 and the reducer).
decodeMatrix(from2dMatrix, delimiter) ==
    IF \E i \in 1..Len(from2dMatrix) : ~IsIterable(from2dMatrix[i])
    THEN Throw("TypeError", <<"row is not iterable">>)
    ELSE LET stringifiedMatrixValues ==
                [i \in 1..Len(from2dMatrix) |->
                    LET key == RowItem(from2dMatrix[i], 1)
                        value == RowItem(from2dMatrix[i], 2)
                    IN  <<key, IF Truthy(value) /\ TypeOf(value) = "object"
                               THEN Str(JSONstringify(value)) ELSE value>>]
         IN  Obj(reduceEntries(<<>>, URLSearchParamsOfPairs(stringifiedMatrixValues), delimiter))

\* new TypeError(`Type "${typeof input}" is not supported. Please use a string or object.`)
UnsupportedTypeError(type) ==
    Throw("TypeError", <<"Type \"", type, "\" is not supported. Please use a string or object.">>)

\* What reading `fromString.match` throws when fromString was never assigned.
MatchOfUndefinedError ==
    Throw("TypeError", <<"Cannot read properties of undefined (reading 'match')">>)

\* A variant of getQueryParams that hands a string back as it is.
getQueryParamsVerbatim(input, delimiter, searchHash) ==
    LET in == IF input.k = "undefined" THEN Str(searchHash) ELSE input
    IN  IF TypeOf(in) = "string" THEN in
        ELSE IF IsArray(in) THEN decodeMatrix(in.v, delimiter)
        ELSE IF TypeOf(in) = "object"
             THEN IF Truthy(in) THEN encodeQueryParams(in.v, delimiter)
                  ELSE MatchOfUndefinedError
        ELSE UnsupportedTypeError(TypeOf(in))

\* getQueryParams(input, { delimiter }) on a page whose location.search +
\* location.hash is `searchHash`; an undefined input takes that default.
getQueryParams(input, delimiter, searchHash) ==
    LET in == IF input.k = "undefined" THEN Str(searchHash) ELSE input
    IN  IF TypeOf(in) = "string" THEN decodeString(in.v, delimiter)
        ELSE IF IsArray(in) THEN decodeMatrix(in.v, delimiter)
        ELSE IF TypeOf(in) = "object"
             THEN IF Truthy(in) THEN encodeQueryParams(in.v, delimiter)
                  ELSE MatchOfUndefinedError
        ELSE UnsupportedTypeError(TypeOf(in))

\* The objects of the `if (fromObj)` branch: the one the caller passed, the one
\* line 49 makes, and which of the two the local `fromObj` refers to.
HeapOf(passed) == [argument |-> passed, copy |-> <<>>, fromObj |-> "argument"]

\* A variant of spreadCopy that makes no new object: `fromObj` stays the caller's.
spreadCopyAliased(heap) == heap

\* Line 49, `fromObj = { ...fromObj }`: a new object with the same own entries,
\* to which `fromObj` refers from here on.
spreadCopy(heap) == [heap EXCEPT !.copy = heap[heap.fromObj], !.fromObj = "copy"]

\* Line 53, `delete fromObj['#']`, on the object `fromObj` refers to.
deleteHash(heap) == [heap EXCEPT ![heap.fromObj] = DeleteOwn(heap[heap.fromObj], <<"#">>)]

\* The value passed to getQueryParams as the caller finds it after the call:
\* only the `if (fromObj)` branch writes to an object (lines 49 and 53); the matrix
\* branch builds new rows (line 93) and strings cannot change.
argumentAfter(input) ==
    IF input.k = "object" THEN Obj(deleteHash(spreadCopy(HeapOf(input.v))).argument)
    ELSE input

---------------------------------------------------------------------------
(* URLs: what `new URL(url)` and History.pushState make of a string.  The  *)
(* model covers URLs without userinfo whose host, when they have one, is a *)
(* domain name.                                                            *)

IsAsciiAlpha(c) == CodeOf(c) \in 65..90 \/ CodeOf(c) \in 97..122

IsSchemeChar(c) == IsAsciiAlpha(c) \/ IsDigit(c) \/ c \in {"+", "-", "."}

ToLowerChar(c) == IF CodeOf(c) \in 65..90 THEN CharOf(CodeOf(c) + 32) ELSE c

ToLowerCase(s) == [i \in 1..Len(s) |-> ToLowerChar(s[i])]

RECURSIVE RemoveChars(_, _)
\* The string without the characters of `chars`.
RemoveChars(s, chars) ==
    IF Len(s) = 0 THEN <<>>
    ELSE (IF s[1] \in chars THEN <<>> ELSE <<s[1]>>) \o RemoveChars(Tail(s), chars)

\* The string without its leading and trailing spaces.
TrimSpaces(s) ==
    LET keep == {i \in 1..Len(s) : s[i] # " "}
    IN  IF keep = {} THEN <<>>
        ELSE SubSeq(s, CHOOSE i \in keep : \A j \in keep : i <= j,
                       CHOOSE i \in keep : \A j \in keep : j <= i)

\* The URL parser's input: spaces stripped off both ends, newlines removed.
CleanUrlText(s) == RemoveChars(TrimSpaces(s), {"\n"})

\* The position of the first character of `chars` at or after `from`; Len(s) + 1
\* when there is none.
FirstOf(s, chars, from) ==
    IF \E i \in from..Len(s) : s[i] \in chars
    THEN CHOOSE i \in from..Len(s) :
            /\ s[i] \in chars
            /\ \A j \in from..(i - 1) : s[j] \notin chars
    ELSE Len(s) + 1

\* The position of the first character not in `chars` at or after `from`.
FirstNotOf(s, chars, from) ==
    IF \E i \in from..Len(s) : s[i] \notin chars
    THEN CHOOSE i \in from..Len(s) :
            /\ s[i] \notin chars
            /\ \A j \in from..(i - 1) : s[j] \in chars
    ELSE Len(s) + 1

RECURSIVE PercentEncodeIn(_, _)
\* The string with the characters of `set`, and those outside ASCII, percent-encoded.
PercentEncodeIn(s, set) ==
    IF Len(s) = 0 THEN <<>>
    ELSE (IF s[1] \in set THEN PercentByte(CodeOf(s[1]))
          ELSE IF CodeOf(s[1]) > 126
               THEN PercentByte(239) \o PercentByte(191) \o PercentByte(189)
          ELSE <<s[1]>>)
         \o PercentEncodeIn(Tail(s), set)

FragmentEncodeSet == {" ", "\"", "<", ">", "U+0060"}
QueryEncodeSet == {" ", "\"", "#", "<", ">"}
SpecialQueryEncodeSet == QueryEncodeSet \cup {"'"}
PathEncodeSet == QueryEncodeSet \cup {"?", "U+0060", "{", "}"}

\* The characters a host may not hold.
ForbiddenHostChars ==
    {" ", "#", "/", ":", "<", ">", "?", "@", "[", "\\", "]", "^", "|", "%"}

Http == <<"h", "t", "t", "p">>
Https == <<"h", "t", "t", "p", "s">>

\* The schemes with an origin and a default port.
SpecialSchemes == {Http, Https}

\* Port 80 for http, 443 for https.
HttpPort == 80
HttpsPort == 443
MaxPort == 65535

DefaultPort(scheme) == IF scheme = Http THEN HttpPort ELSE HttpsPort

\* The position of the ":" that ends the scheme of a URL text; 0 when the text
\* does not start with a scheme.
SchemeEnd(s) ==
    LET i == FirstOf(s, {":"}, 1)
    IN  IF /\ i > 1
           /\ i <= Len(s)
           /\ IsAsciiAlpha(s[1])
           /\ \A j \in 1..(i - 1) : IsSchemeChar(s[j])
        THEN i ELSE 0

\* What the parser gives for a string that is no URL.
URLFailure == [ok |-> FALSE]

IsSingleDot(seg) == ToLowerCase(seg) \in { <<".">>, <<"%", "2", "e">> }

IsDoubleDot(seg) ==
    ToLowerCase(seg) \in { <<".", ".">>, <<".", "%", "2", "e">>, <<"%", "2", "e", ".">>,
                           <<"%", "2", "e", "%", "2", "e">> }

RECURSIVE NormalizeSegments(_, _)
\* The path of the segments `done` followed by `segments`: "." is dropped, ".."
\* takes the segment before it away, every other segment is percent-encoded.
NormalizeSegments(segments, done) ==
    IF Len(segments) = 0 THEN done
    ELSE IF IsDoubleDot(segments[1])
         THEN NormalizeSegments(Tail(segments),
                  (IF Len(done) > 0 THEN SubSeq(done, 1, Len(done) - 1) ELSE done)
                  \o (IF Len(segments) = 1 THEN <<<<>>>> ELSE <<>>))
    ELSE IF IsSingleDot(segments[1])
         THEN NormalizeSegments(Tail(segments),
                  done \o (IF Len(segments) = 1 THEN <<<<>>>> ELSE <<>>))
    ELSE NormalizeSegments(Tail(segments),
                           Append(done, PercentEncodeIn(segments[1], PathEncodeSet)))

\* "\" counts as "/" in the path of a special URL.
SlashesOf(s, special) ==
    [i \in 1..Len(s) |-> IF special /\ s[i] = "\\" THEN "/" ELSE s[i]]

\* The segments of a path text.
SegmentsOf(pathText) ==
    IF Len(pathText) = 0 THEN <<>>
    ELSE IF pathText[1] = "/" THEN SplitNonEmpty(Tail(pathText), <<"/">>)
    ELSE SplitNonEmpty(pathText, <<"/">>)

\* The pathname of a list of segments.
PathOf(segments, special) ==
    IF Len(segments) = 0 THEN (IF special THEN <<"/">> ELSE <<>>)
    ELSE <<"/">> \o Join(segments, <<"/">>)

\* A parsed URL.  `host` is the empty string when there is none; hasQuery and
\* hasFragment tell a "?" or "#" with nothing after it from none at all.
URLRecord(scheme, hasHost, host, port, pathname, hasQuery, query, hasFragment, fragment) ==
    [ok |-> TRUE, scheme |-> scheme, hasHost |-> hasHost, host |-> host, port |-> port,
     pathname |-> pathname, hasQuery |-> hasQuery, query |-> query,
     hasFragment |-> hasFragment, fragment |-> fragment]

\* The query between positions qStart and hashAt, and the fragment after hashAt,
\* put on a URL with the given pathname.
WithQueryUpTo(scheme, hasHost, host, port, pathname, s, qStart, hashAt) ==
    URLRecord(scheme, hasHost, host, port, pathname,
              qStart <= Len(s) /\ s[qStart] = "?",
              IF qStart <= Len(s) /\ s[qStart] = "?"
              THEN PercentEncodeIn(SubSeq(s, qStart + 1, hashAt - 1),
                                   IF scheme \in SpecialSchemes THEN SpecialQueryEncodeSet
                                   ELSE QueryEncodeSet)
              ELSE <<>>,
              hashAt <= Len(s),
              PercentEncodeIn(SubSeq(s, hashAt + 1, Len(s)), FragmentEncodeSet))

\* The query and the fragment of the text from position qStart (the "?", the "#"
\* or the end).
WithQueryAndFragment(scheme, hasHost, host, port, pathname, s, qStart) ==
    WithQueryUpTo(scheme, hasHost, host, port, pathname, s, qStart,
                  FirstOf(s, {"#"}, qStart))

\* The path between positions pStart and pEnd, after the segments `base`, then
\* the query and the fragment.
WithPathUpTo(scheme, hasHost, host, port, base, s, pStart, pEnd) ==
    WithQueryAndFragment(scheme, hasHost, host, port,
        PathOf(NormalizeSegments(
                   SegmentsOf(SlashesOf(SubSeq(s, pStart, pEnd - 1),
                                        scheme \in SpecialSchemes)),
                   base),
               scheme \in SpecialSchemes),
        s, pEnd)

\* The path from position pStart, then the query and the fragment.
WithPath(scheme, hasHost, host, port, base, s, pStart) ==
    WithPathUpTo(scheme, hasHost, host, port, base, s, pStart,
                 FirstOf(s, {"?", "#"}, pStart))

\* The port of a port text: none for the empty text and for the scheme's default.
PortOf(scheme, portText) ==
    IF Len(portText) = 0 THEN <<>>
    ELSE IF scheme \in SpecialSchemes /\ StrToNat(portText) = DefaultPort(scheme) THEN <<>>
    ELSE NatToStr(StrToNat(portText))

\* The URL of a host text, a port text and the rest from position pStart; a
\* failure on a host or a port that is none.
WithHostAndPort(scheme, hostText, hasColon, portText, s, pStart) ==
    IF \/ \E i \in 1..Len(hostText) : hostText[i] \in ForbiddenHostChars
       \/ Len(hostText) = 0 /\ (scheme \in SpecialSchemes \/ hasColon)
       \/ \E i \in 1..Len(portText) : ~IsDigit(portText[i])
       \/ StrToNat(portText) > MaxPort
    THEN URLFailure
    ELSE WithPath(scheme, TRUE,
                  IF scheme \in SpecialSchemes THEN ToLowerCase(hostText) ELSE hostText,
                  PortOf(scheme, portText), <<>>, s, pStart)

\* The authority from position aStart to position aEnd - 1, whose first ":" is
\* at position colon (aEnd when it has none), and the rest.
WithAuthorityAt(scheme, s, aStart, colon, aEnd) ==
    WithHostAndPort(scheme, SubSeq(s, aStart, colon - 1), colon < aEnd,
                    SubSeq(s, colon + 1, aEnd - 1), s, aEnd)

WithAuthority(scheme, s, aStart, aEnd) ==
    WithAuthorityAt(scheme, s, aStart, FirstOf(SubSeq(s, 1, aEnd - 1), {":"}, aStart), aEnd)

\* The authority from position aStart, where a special URL's authority ends.
SpecialAuthorityFrom(scheme, s, aStart) ==
    WithAuthority(scheme, s, aStart, FirstOf(s, {"/", "\\", "?", "#"}, aStart))

\* A special URL from position `from`, after the scheme: the slashes before the
\* authority do not count, however many there are.
ParseSpecial(scheme, s, from) ==
    SpecialAuthorityFrom(scheme, s, FirstNotOf(s, {"/", "\\"}, from))

\* A path that is no list of segments: the text between `from` and pEnd as it is.
OpaquePathUpTo(scheme, s, from, pEnd) ==
    WithQueryAndFragment(scheme, FALSE, <<>>, <<>>, SubSeq(s, from, pEnd - 1), s, pEnd)

\* A URL of any other scheme: "//" starts an authority, "/" a path, and anything
\* else is taken as it stands.
ParseNonSpecial(scheme, s, from) ==
    IF OccursAt(s, <<"/", "/">>, from)
    THEN WithAuthority(scheme, s, from + 2, FirstOf(s, {"/", "?", "#"}, from + 2))
    ELSE IF OccursAt(s, <<"/">>, from)
         THEN WithPath(scheme, FALSE, <<>>, <<>>, <<>>, s, from)
    ELSE OpaquePathUpTo(scheme, s, from, FirstOf(s, {"?", "#"}, from))

\* A URL text after its scheme, which ends before position `from`.
ParseWithScheme(scheme, s, from) ==
    IF scheme \in SpecialSchemes THEN ParseSpecial(scheme, s, from)
    ELSE ParseNonSpecial(scheme, s, from)

\* A URL text whose scheme ends at position e.
ParseAbsolute(s, e) == ParseWithScheme(ToLowerCase(SubSeq(s, 1, e - 1)), s, e + 1)

\* A URL text whose scheme ends at position e, or that has no scheme (e = 0) and
\* is no URL.
ParseFromScheme(s, e) == IF e = 0 THEN URLFailure ELSE ParseAbsolute(s, e)

ParseCleaned(s) == ParseFromScheme(s, SchemeEnd(s))

\* new URL(url).
ParseURL(url) == ParseCleaned(CleanUrlText(url))

\* The segments of a pathname without the last one.
DirectoryOf(pathname) ==
    IF Len(SegmentsOf(pathname)) = 0 THEN <<>>
    ELSE SubSeq(SegmentsOf(pathname), 1, Len(SegmentsOf(pathname)) - 1)

\* A reference without a scheme, resolved against the URL `base` of the page.
ParseRelative(r, base) ==
    IF Len(r) = 0
    THEN URLRecord(base.scheme, base.hasHost, base.host, base.port, base.pathname,
                   base.hasQuery, base.query, FALSE, <<>>)
    ELSE IF r[1] \in {"/", "\\"}
         THEN IF Len(r) > 1 /\ r[2] \in {"/", "\\"}
              THEN ParseSpecial(base.scheme, r, 1)
              ELSE WithPath(base.scheme, base.hasHost, base.host, base.port, <<>>, r, 1)
    ELSE IF r[1] = "?"
         THEN WithQueryAndFragment(base.scheme, base.hasHost, base.host, base.port,
                                   base.pathname, r, 1)
    ELSE IF r[1] = "#"
         THEN URLRecord(base.scheme, base.hasHost, base.host, base.port, base.pathname,
                        base.hasQuery, base.query, TRUE,
                        PercentEncodeIn(Tail(r), FragmentEncodeSet))
    ELSE WithPath(base.scheme, base.hasHost, base.host, base.port,
                  DirectoryOf(base.pathname), r, 1)

\* A URL text resolved against `base`: a text without a scheme is a reference,
\* and so is one with the scheme of `base` and no "//" after it.
ResolveFromScheme(s, e, base) ==
    IF e = 0 THEN ParseRelative(s, base)
    ELSE IF ToLowerCase(SubSeq(s, 1, e - 1)) = base.scheme /\ ~OccursAt(s, <<"/", "/">>, e + 1)
         THEN ParseRelative(SubSeq(s, e + 1, Len(s)), base)
    ELSE ParseAbsolute(s, e)

ResolveCleaned(s, base) == ResolveFromScheme(s, SchemeEnd(s), base)

\* new URL(url, base) for the http or https URL `base` of a page.
ParseURLWithBase(url, base) == ResolveCleaned(CleanUrlText(url), base)

\* The attributes of a URL object.
HostAndPort(u) == u.host \o (IF Len(u.port) > 0 THEN <<":">> \o u.port ELSE <<>>)

UrlProtocol(u) == u.scheme \o <<":">>

UrlOrigin(u) ==
    IF u.scheme \in SpecialSchemes THEN u.scheme \o <<":", "/", "/">> \o HostAndPort(u)
    ELSE <<"n", "u", "l", "l">>

UrlSearch(u) == IF Len(u.query) > 0 THEN <<"?">> \o u.query ELSE <<>>

UrlHash(u) == IF Len(u.fragment) > 0 THEN <<"#">> \o u.fragment ELSE <<>>

UrlHref(u) ==
    u.scheme \o <<":">>
    \o (IF u.hasHost THEN <<"/", "/">> \o HostAndPort(u) ELSE <<>>)
    \o u.pathname
    \o (IF u.hasQuery THEN <<"?">> \o u.query ELSE <<>>)
    \o (IF u.hasFragment THEN <<"#">> \o u.fragment ELSE <<>>)

---------------------------------------------------------------------------
(* getUrlSegments                                                          *)

\* What urlPiecesRegex.exec gives when the regex does not match.
NoMatch == [matched |-> FALSE]

\* The groups after the protocol, which ends before position `from`: the domain
\* up to the first of : / ? #, a ":" if one follows, the digits of the port, the
\* pathname up to the first of ? #, the query up to the first "#", and the hash.
PiecesAfterProtocol(url, protocol, from) ==
    LET domainEnd == FirstOf(url, {":", "/", "?", "#"}, from)
        portStart == IF domainEnd <= Len(url) /\ url[domainEnd] = ":"
                     THEN domainEnd + 1 ELSE domainEnd
        portEnd == FirstNotOf(url, {Digits[i] : i \in 1..10}, portStart)
        pathEnd == FirstOf(url, {"?", "#"}, portEnd)
        queryEnd == FirstOf(url, {"#"}, pathEnd)
    IN  [matched |-> TRUE,
         fullUrl |-> url,
         protocol |-> protocol,
         domain |-> SubSeq(url, from, domainEnd - 1),
         port |-> SubSeq(url, portStart, portEnd - 1),
         pathname |-> SubSeq(url, portEnd, pathEnd - 1),
         queryString |-> SubSeq(url, pathEnd, queryEnd - 1),
         hash |-> SubSeq(url, queryEnd, Len(url))]

\* The groups of a string whose first of : / ? # is at position p: the protocol
\* is the text up to "://" when "://" is what stands at p, and undefined otherwise.
PiecesFrom(url, p) ==
    IF OccursAt(url, <<":", "/", "/">>, p)
    THEN PiecesAfterProtocol(url, Str(SubSeq(url, 1, p + 2)), p + 3)
    ELSE PiecesAfterProtocol(url, Undefined, 1)

\* urlPiecesRegex.exec(url): "." takes no line terminator, so no string with one
\* after its first "#" matches; every other string does.
urlPiecesRegexExec(url) ==
    IF \E i \in FirstOf(url, {"#"}, 1)..Len(url) : IsLineTerminator(url[i])
    THEN NoMatch
    ELSE PiecesFrom(url, FirstOf(url, {":", "/", "?", "#"}, 1))

\* The TypeError of destructuring null, which exec returns on no match.
NotIterableError ==
    Throw("TypeError", <<"object null is not iterable">>)

\* (protocol || '').replace(/:\/?\/?/, ''): the string without its first ":" and
\* the one or two "/" after it.
protocolName(protocol) ==
    LET p == IF Truthy(protocol) THEN protocol.v ELSE <<>>
        i == FirstOf(p, {":"}, 1)
        j == IF OccursAt(p, <<"/", "/">>, i + 1) THEN i + 3
             ELSE IF OccursAt(p, <<"/">>, i + 1) THEN i + 2
             ELSE i + 1
    IN  IF i > Len(p) THEN p ELSE SubSeq(p, 1, i - 1) \o SubSeq(p, j, Len(p))

\* s.replace(/\/+(?=\?|#|$)/, ''): the string without its first run of "/" that
\* a "?", a "#" or the end of the string follows.
withoutSlashesBeforeQuery(s) ==
    LET runEnd(i) == FirstNotOf(s, {"/"}, i)
        starts == {i \in 1..Len(s) :
                      /\ s[i] = "/"
                      /\ (runEnd(i) > Len(s) \/ s[runEnd(i)] \in {"?", "#"})}
        first == CHOOSE i \in starts : \A j \in starts : i <= j
    IN  IF starts = {} THEN s
        ELSE SubSeq(s, 1, first - 1) \o SubSeq(s, runEnd(first), Len(s))

\* s.replace(/\/+$/, ''): the string without the "/" at its end.
withoutTrailingSlashes(s) ==
    LET keep == {i \in 1..Len(s) : s[i] # "/"}
    IN  IF keep = {} THEN <<>>
        ELSE SubSeq(s, 1, CHOOSE i \in keep : \A j \in keep : j <= i)

\* s.substring(1).
substring1(s) == SubSeq(s, 2, Len(s))

\* Lines 238-262: the segments getUrlSegments returns, from the pieces the URL
\* object or the regex gave.
normalizedSegments(fullUrl, protocol, domain, port, origin, pathname, queryString, hash) ==
    [k |-> "segments",
     fullUrl |-> withoutSlashesBeforeQuery(fullUrl),
     protocol |-> protocolName(protocol),
     domain |-> domain,
     port |-> port,
     origin |-> withoutTrailingSlashes(origin),
     pathname |-> withoutTrailingSlashes(pathname),
     queryParamHashString |-> queryString \o hash,
     queryParamMap |-> getQueryParams(Str(queryString \o hash), Undefined, <<>>),
     queryString |-> substring1(queryString),
     hash |-> substring1(hash)]

\* The try block (lines 190-206): the segments of a URL object.
segmentsOfURL(u) ==
    normalizedSegments(UrlHref(u), Str(UrlProtocol(u)), u.host, u.port, UrlOrigin(u),
                       u.pathname, UrlSearch(u), UrlHash(u))

\* The catch block (lines 207-236): the segments of the regex's groups, the origin
\* being protocol + domain + (port ? `:${port}` : '') with an undefined protocol
\* as the text "undefined".
segmentsOfPieces(m) ==
    IF ~m.matched THEN NotIterableError
    ELSE normalizedSegments(m.fullUrl, m.protocol, m.domain, m.port,
                            ToStr(m.protocol) \o m.domain
                                \o (IF Len(m.port) > 0 THEN <<":">> \o m.port ELSE <<>>),
                            m.pathname, m.queryString, m.hash)

\* The try block when `new URL` gave `u`, the catch block when it threw.
segmentsOfParsed(u, text) ==
    IF u.ok THEN segmentsOfURL(u) ELSE segmentsOfPieces(urlPiecesRegexExec(text))

\* getUrlSegments(url = self.location.href).
getUrlSegments(url, href) ==
    IF url.k = "undefined" THEN segmentsOfParsed(ParseURL(href), href)
    ELSE segmentsOfParsed(ParseURL(ToStr(url)), ToStr(url))

---------------------------------------------------------------------------
(* modifyQueryParams                                                       *)

\* The SecurityError of history.pushState on a URL of another origin.
SecurityError ==
    Throw("SecurityError", <<"Failed to execute 'pushState' on 'History'">>)

\* The URL a page gets when history.pushState is given one that resolves to
\* `target`, or the SecurityError when that is no URL or lies in another origin.
pushedUrl(target, page) ==
    IF target.ok /\ UrlOrigin(target) = UrlOrigin(page)
    THEN Str(UrlHref(target))
    ELSE SecurityError

pushStateOn(url, page) == pushedUrl(ParseURLWithBase(url, page), page)

\* history.pushState(null, '', url) on the page at `href`.
pushState(url, href) == pushStateOn(url, ParseURL(href))

SearchHashOfURL(u) == UrlSearch(u) \o UrlHash(u)

\* location.search + location.hash of the page at `href`.
SearchHashOf(href) == SearchHashOfURL(ParseURL(href))

\* The own enumerable entries a spread copies from a value.
OwnEntries(x) ==
    IF x.k = "object" THEN x.v
    ELSE IF x.k = "array" THEN [i \in 1..Len(x.v) |-> <<NatToStr(i - 1), x.v[i]>>]
    ELSE IF x.k = "string" THEN [i \in 1..Len(x.v) |-> <<NatToStr(i - 1), Str(<<x.v[i]>>)>>]
    ELSE <<>>

\* A variant of modifiedQueryParams in which the page's entries win over the
\* object's and overwriteQueryParams keeps them.
modifiedQueryParamsBaselineWins(queryParams, key, value, overwriteQueryParams) ==
    IF TypeOf(key) = "object"
    THEN Obj(AssignAll(OwnEntries(key), queryParams.v))
    ELSE IF TypeOf(key) = "string"
         THEN IF Truthy(value)
              THEN IF Truthy(overwriteQueryParams) THEN Obj(<<<<key.v, value>>>>)
                   ELSE Obj(SetOwn(queryParams.v, key.v, value))
              ELSE Obj(DeleteOwn(queryParams.v, key.v))
    ELSE queryParams

\* A variant of modifiedQueryParams that sets a string key to any value but
\* undefined, and drops the key only when no value is given.
modifiedQueryParamsKeepingFalsy(queryParams, key, value, overwriteQueryParams) ==
    IF TypeOf(key) = "object"
    THEN IF Truthy(overwriteQueryParams) THEN key
         ELSE Obj(AssignAll(queryParams.v, OwnEntries(key)))
    ELSE IF TypeOf(key) = "string"
         THEN IF value.k # "undefined"
              THEN IF Truthy(overwriteQueryParams) THEN Obj(<<<<key.v, value>>>>)
                   ELSE Obj(SetOwn(queryParams.v, key.v, value))
              ELSE Obj(DeleteOwn(queryParams.v, key.v))
    ELSE queryParams

\* Lines 300-326: the query params after the modification.
modifiedQueryParams(queryParams, key, value, overwriteQueryParams) ==
    IF TypeOf(key) = "object"
    THEN IF Truthy(overwriteQueryParams) THEN key
         ELSE Obj(AssignAll(queryParams.v, OwnEntries(key)))
    ELSE IF TypeOf(key) = "string"
         THEN IF Truthy(value)
              THEN IF Truthy(overwriteQueryParams) THEN Obj(<<<<key.v, value>>>>)
                   ELSE Obj(SetOwn(queryParams.v, key.v, value))
              ELSE Obj(DeleteOwn(queryParams.v, key.v))
    ELSE queryParams

\* What a call leaves behind: what it returned or threw, the URL of the page, and
\* whether it pushed that URL on the history.
Outcome(returned, href, pushed) == [returned |-> returned, href |-> href, pushed |-> pushed]

\* Line 340: `return returnUrl ? newUrl : getQueryParams()`.
returnOf(newUrl, returnUrl, href, pushed) ==
    Outcome(IF Truthy(returnUrl) THEN Str(newUrl)
            ELSE getQueryParams(Undefined, Undefined, SearchHashOf(href)),
            href, pushed)

\* The return after history.pushState gave `pushed`: its error, or line 340 on
\* the page's new URL.
afterPush(pushed, newUrl, returnUrl, href) ==
    IF IsThrow(pushed) THEN Outcome(pushed, href, FALSE)
    ELSE returnOf(newUrl, returnUrl, pushed.v, TRUE)

\* Lines 332-340: the push on the history when asked for, and the return.
pushAndReturn(newUrl, pushOnHistory, returnUrl, href) ==
    IF Truthy(pushOnHistory) THEN afterPush(pushState(newUrl, href), newUrl, returnUrl, href)
    ELSE returnOf(newUrl, returnUrl, href, FALSE)

\* Lines 328-330: the new URL of the encoded query params.
encodeAndPush(segments, queryParamsString, options, href) ==
    IF IsThrow(queryParamsString) THEN Outcome(queryParamsString, href, FALSE)
    ELSE pushAndReturn(segments.origin \o segments.pathname \o ToStr(queryParamsString),
                       options.pushOnHistory, options.returnUrl, href)

\* A variant of modifyWithSegments that modifies the query params of the URL
\* getUrlSegments was given instead of the page's.
modifyWithSegmentsOfTarget(segments, key, value, options, href) ==
    IF IsThrow(segments) THEN Outcome(segments, href, FALSE)
    ELSE encodeAndPush(segments,
             getQueryParams(
                 modifiedQueryParams(segments.queryParamMap,
                                     key, value, options.overwriteQueryParams),
                 Undefined, SearchHashOf(href)),
             options, href)

\* Lines 297-328, once getUrlSegments has returned.
modifyWithSegments(segments, key, value, options, href) ==
    IF IsThrow(segments) THEN Outcome(segments, href, FALSE)
    ELSE encodeAndPush(segments,
             getQueryParams(
                 modifiedQueryParams(getQueryParams(Undefined, Undefined, SearchHashOf(href)),
                                     key, value, options.overwriteQueryParams),
                 Undefined, SearchHashOf(href)),
             options, href)

\* The key passed to modifyQueryParams as the caller finds it after the call: with
\* overwriteQueryParams line 304 hands the caller's object itself to getQueryParams
\* (line 328), without it line 306 spreads it into a new one.
keyAfter(segments, key, overwriteQueryParams) ==
    IF ~IsThrow(segments) /\ TypeOf(key) = "object" /\ Truthy(overwriteQueryParams)
    THEN argumentAfter(key)
    ELSE key

\* modifyQueryParams(key, value, { url, overwriteQueryParams, pushOnHistory, returnUrl })
\* on the page at `href`.
modifyQueryParams(key, value, options, href) ==
    modifyWithSegments(getUrlSegments(options.url, href), key, value, options, href)

---------------------------------------------------------------------------
(* isIpAddress and extractFinalPathnameSegmentFromUrl                      *)

DigitChars == { Digits[i] : i \in 1..10 }

\* The number of digits that stand at position p.
DigitRun(s, p) == FirstNotOf(s, DigitChars, p) - p

\* \d{1,3}\. at position p: one to three digits and a ".".
OctetDotAt(s, p) ==
    /\ DigitRun(s, p) \in 1..3
    /\ OccursAt(s, <<".">>, p + DigitRun(s, p))

\* \d{1,3}(?!\.) at position p: one to three digits that no "." follows.  Of a
\* longer run of digits the regex takes the first, which a digit follows.
LastOctetAt(s, p) ==
    \/ DigitRun(s, p) >= 2
    \/ DigitRun(s, p) = 1 /\ ~OccursAt(s, <<".">>, p + 1)

\* (\d{1,3}\.){3}(\d{1,3}(?!\.)) at position p.
QuadAfter(s, p1, p2, p3) ==
    /\ OctetDotAt(s, p1)
    /\ OctetDotAt(s, p2)
    /\ OctetDotAt(s, p3)
    /\ LastOctetAt(s, p3 + DigitRun(s, p3) + 1)

QuadFrom(s, p1, p2) == QuadAfter(s, p1, p2, p2 + DigitRun(s, p2) + 1)

QuadAt(s, p) == QuadFrom(s, p, p + DigitRun(s, p) + 1)

\* Where ([^/]*:\/\/) ends when it matches at the start of the string: the "://"
\* must be the one that holds the first "/"; 0 when there is none.
ProtocolPrefixEnd(s, slash) ==
    IF slash >= 2 /\ OccursAt(s, <<":", "/", "/">>, slash - 1) THEN slash + 1 ELSE 0

\* url.match(/^([^/]*:\/\/)?(\d{1,3}\.){3}(\d{1,3}(?!\.))/): the quad stands
\* after the protocol, or at the start of the string.
matchesIpRegex(url) ==
    \/ /\ ProtocolPrefixEnd(url, FirstOf(url, {"/"}, 1)) > 0
       /\ QuadAt(url, ProtocolPrefixEnd(url, FirstOf(url, {"/"}, 1)) + 1)
    \/ QuadAt(url, 1)

\* Whether one of the texts stands at position i.
AnyOccursAt(s, texts, i) == \E t \in texts : OccursAt(s, t, i)

\* domain.match(/^((127|19[28]|1?0)\.)|(172\.(1[6-9]|2|31))/): the first
\* alternative is bound to the start of the string, the second is not.
matchesLocalIpRegex(domain) ==
    \/ AnyOccursAt(domain, { <<"1", "2", "7", ".">>, <<"1", "9", "2", ".">>,
                             <<"1", "9", "8", ".">>, <<"1", "0", ".">>, <<"0", ".">> }, 1)
    \/ \E i \in 1..Len(domain) :
          /\ OccursAt(domain, <<"1", "7", "2", ".">>, i)
          /\ AnyOccursAt(domain, { <<"1", "6">>, <<"1", "7">>, <<"1", "8">>, <<"1", "9">>,
                                   <<"2">>, <<"3", "1">> }, i + 4)

\* domain.match(/localhost/).
matchesLocalhost(domain) ==
    \E i \in 1..Len(domain) :
        OccursAt(domain, <<"l", "o", "c", "a", "l", "h", "o", "s", "t">>, i)

\* The onlyLocalhost branch (lines 360-371), once getUrlSegments has returned.
isLocalAddress(segments, includeLocalhostDomain) ==
    IF IsThrow(segments) THEN segments
    ELSE Bool(\/ matchesLocalIpRegex(segments.domain)
              \/ /\ includeLocalhostDomain.k = "undefined" \/ Truthy(includeLocalhostDomain)
                 /\ matchesLocalhost(segments.domain))

\* isIpAddress(url, { onlyLocalhost = false, includeLocalhostDomain = true }).
isIpAddress(url, options, href) ==
    IF Truthy(options.onlyLocalhost)
    THEN isLocalAddress(getUrlSegments(Str(url), href), options.includeLocalhostDomain)
    ELSE Bool(matchesIpRegex(url))

\* Whether the "/" at position i can be the one the regex of
\* extractFinalPathnameSegmentFromUrl matches: no other "/" stands between it and
\* the next "?" or "#" or the end.
IsFinalSlash(s, i) ==
    /\ s[i] = "/"
    /\ FirstOf(s, {"/", "?", "#"}, i + 1) > Len(s)
          \/ s[FirstOf(s, {"/", "?", "#"}, i + 1)] \in {"?", "#"}

\* The position after the last line terminator before position i.
LineStart(s, i) ==
    IF \E j \in 1..(i - 1) : IsLineTerminator(s[j])
    THEN 1 + CHOOSE j \in 1..(i - 1) :
                /\ IsLineTerminator(s[j])
                /\ \A k \in (j + 1)..(i - 1) : ~IsLineTerminator(s[k])
    ELSE 1

\* The string with the match replaced by its group: the match starts at `start`,
\* its "/" is at `slash`, the group ends before `groupEnd`, and the last ".*"
\* runs to the end of its line.
replacedByGroup(s, start, slash, groupEnd) ==
    SubSeq(s, 1, start - 1)
    \o SubSeq(s, slash + 1, groupEnd - 1)
    \o SubSeq(s, FirstOf(s, {"\n"}, groupEnd + 1), Len(s))

\* The match that starts at `start`: the first ".*" is greedy, so its "/" is the
\* last one of the line of `start` that can be matched.
replacedFrom(s, start, lineEnd) ==
    LET slash == CHOOSE i \in start..lineEnd :
                    /\ IsFinalSlash(s, i)
                    /\ \A j \in (i + 1)..lineEnd : ~IsFinalSlash(s, j)
    IN  replacedByGroup(s, start, slash, FirstOf(s, {"/", "?", "#"}, slash + 1))

\* The match is the leftmost one: it starts on the line of the first "/" that
\* can be matched.
replacedAtFirst(s, first) ==
    replacedFrom(s, LineStart(s, first), FirstOf(s, {"\n"}, first) - 1)

\* extractFinalPathnameSegmentFromUrl(url = ''):
\* url.replace(/.*\/([^/?#]*)(?:$|\?|#).*/, '$1').
extractFinalPathnameSegmentFromUrl(url) ==
    IF \A i \in 1..Len(url) : ~IsFinalSlash(url, i) THEN url
    ELSE replacedAtFirst(url, CHOOSE i \in 1..Len(url) :
                                  /\ IsFinalSlash(url, i)
                                  /\ \A j \in 1..(i - 1) : ~IsFinalSlash(url, j))

---------------------------------------------------------------------------
(* debounce and throttle (src/src/utils/Events.js).  setTimeout keeps the   *)
(* callback with the time it is due; the callback runs when that time has  *)
(* come, before the clock moves on, and other tasks of the same            *)
(* millisecond may run before it.                                          *)

\* x == null.
IsNullish(x) == x.k \in {"null", "undefined"}

\* A variant of clearTimeout that clears nothing.
clearTimeoutOfNone(pending, id) == pending

\* clearTimeout(id): the timers without the one of that id, if there is one.
clearTimeout(pending, id) == { t \in pending : Num(t.id) # id }

\* The timers that are due.
DueTimers(pending, time) == { t \in pending : t.due <= time }

\* A call of the wrapper, a run of a timer's callback, and an invocation of func
\* by a call or by a timer, as the trace records them.
CallEvent(at, args) == [e |-> "call", at |-> at, args |-> args, by |-> "caller", threw |-> FALSE]

TimerEvent(at) == [e |-> "timer", at |-> at, args |-> "", by |-> "setTimeout", threw |-> FALSE]

FuncEvent(at, args, by, threw) ==
    [e |-> "func", at |-> at, args |-> args, by |-> by, threw |-> threw]

\* A variant of isFirstCallOf that takes every call for a first call.
isFirstCallOfAny(option, handle) == option

\* debounce, line 63: `callOnFirstFuncCall && timeout == null`.
isFirstCallOf(option, handle) == option /\ IsNullish(handle)

\* debounce, lines 67-74: the callback setTimeout is given, due `delay` from now.
debounceTimer(id, time, delay, isFirstCall, args) ==
    [id |-> id, due |-> time + delay, isFirstCall |-> isFirstCall, args |-> args]

\* A variant of throttleTimer that is due at once.
throttleTimerAtOnce(id, time, timeLimit) == [id |-> id, due |-> time]

\* throttle, lines 112-114: the callback that resets wasCalled.
throttleTimer(id, time, timeLimit) == [id |-> id, due |-> time + timeLimit]

---------------------------------------------------------------------------
(* importAssetAsync and importImageAsync (src/src/utils/Events.js).  An    *)
(* async call is the record of its arguments, of the `await` it stands at  *)
(* ("import", "fetch", "read", "fetchAsBase64") or of how its promise has  *)
(* settled ("fulfilled", "rejected"), of its local `imageSrc` and of the   *)
(* value or error it settled with.                                         *)

\* The default export of the module import(`@/assets/${name}`) resolves with:
\* the URL the bundler gave the asset.
moduleDefault(name) == Str(<<"/", "s", "t", "a", "t", "i", "c", "/">> \o name.v)

DataPrefix == <<"d", "a", "t", "a", ":", ";", "b", "a", "s", "e", "6", "4", ",">>

\* FileReader.readAsDataURL of the blob fetched from `src`: a data URL.
readAsDataURL(src) == Str(DataPrefix \o src.v)

IsDataURL(x) ==
    /\ x.k = "string"
    /\ Len(x.v) >= Len(DataPrefix)
    /\ SubSeq(x.v, 1, Len(DataPrefix)) = DataPrefix

\* `path != null && path !== ''`, lines 19 and 272.
isGiven(path) == ~IsNullish(path) /\ path # Str(<<>>)

\* A variant of cacheHit that does not compare the flag.
cacheHitOfAnyFlag(cache, image, base64) == Truthy(cache[image.v])

\* importImageAsync, lines 274-276: whether the cache holds the image as requested.
cacheHit(cache, image, base64) ==
    /\ Truthy(cache[image.v])
    /\ cache[image.v].base64 = base64

\* importImageAsync, lines 295-298 and 302-305: the cache with the image's entry replaced.
cacheWith(cache, image, imageSrc, base64) ==
    [cache EXCEPT ![image.v] = [k |-> "object", imageSrc |-> imageSrc, base64 |-> base64]]

\* No error was caught: the path was not given.
NotCaught == [k |-> "none", v |-> 0]

\* A variant of notFound that throws the error that was caught.
notFoundOrCause(path, cause) ==
    IF IsThrow(cause) THEN cause ELSE Throw("Error", <<ToStr(path), " was not found">>)

\* Lines 36-41 and 309-314: the error caught is dropped and
\* Error(`${path} was not found`) is thrown.
notFound(path, cause) == Throw("Error", <<ToStr(path), " was not found">>)

Pending(fn, path, base64, at, imageSrc) ==
    [fn |-> fn, path |-> path, base64 |-> base64, at |-> at, imageSrc |-> imageSrc,
     value |-> Undefined, from |-> "none", caught |-> NotCaught]

Fulfilled(p, value, from) == [p EXCEPT !.at = "fulfilled", !.value = value, !.from = from]

Rejected(p, cause) ==
    [p EXCEPT !.at = "rejected", !.value = notFound(p.path, cause), !.caught = cause]

\* importImageAsync up to its first await, lines 271-280.
importImageAsync(cache, image, base64) ==
    IF ~isGiven(image) THEN Rejected(Pending("importImageAsync", image, base64, "call", Undefined), NotCaught)
    ELSE IF cacheHit(cache, image, base64)
    THEN Fulfilled(Pending("importImageAsync", image, base64, "call", Undefined),
                   cache[image.v].imageSrc, "cache")
    ELSE Pending("importImageAsync", image, base64, "import", Undefined)

\* importAssetAsync up to its first await, lines 18-28.
importAssetAsync(assetRelPath, base64) ==
    IF ~isGiven(assetRelPath)
    THEN Rejected(Pending("importAssetAsync", assetRelPath, base64, "call", Undefined), NotCaught)
    ELSE Pending("importAssetAsync", assetRelPath, base64, "import", Undefined)

\* The call after `await import(...)` has resolved, lines 29-35 and 281-284, 302-308.
afterImport(p) ==
    IF p.base64
    THEN [p EXCEPT !.imageSrc = moduleDefault(p.path),
                   !.at = IF p.fn = "importImageAsync" THEN "fetch" ELSE "fetchAsBase64"]
    ELSE Fulfilled([p EXCEPT !.imageSrc = moduleDefault(p.path)], moduleDefault(p.path), "import")

\* The cache after `await import(...)` has resolved, lines 302-305.
cacheAfterImport(cache, p) ==
    IF p.fn = "importImageAsync" /\ ~p.base64
    THEN cacheWith(cache, p.path, moduleDefault(p.path), p.base64)
    ELSE cache

\* fetchAsBase64 of '@/utils/Network': resolves with the Base64 data of the
\* asset at `assetSrc`.
fetchAsBase64(assetSrc) == readAsDataURL(assetSrc)

---------------------------------------------------------------------------
(* registerValidSW (src/src/components/About/About.tsx).  A worker is the  *)
(* record of its state and of whether the registration's onupdatefound     *)
(* handler has set its onstatechange handler.                              *)

\* The message of '@/utils/Constants'.
UPDATE_BROADCAST == Str(<<"U", "P", "D", "A", "T", "E">>)

\* The states a ServiceWorker goes through, each with the states that follow it.
NextStates(state) ==
    CASE state = "installing" -> { "installed", "redundant" }
      [] state = "installed" -> { "activating", "redundant" }
      [] state = "activating" -> { "activated", "redundant" }
      [] state = "activated" -> { "redundant" }
      [] OTHER -> {}

\* A variant of broadcastMessage without the try: what `new BroadcastChannel`
\* throws leaves the function.
broadcastMessageWithoutTry(defined, channel, message) ==
    IF defined THEN [posted |-> Append(channel, message), thrown |-> Undefined]
    ELSE [posted |-> channel, thrown |-> Throw("ReferenceError", <<"BroadcastChannel is not defined">>)]

\* broadcastMessage, lines 95-103: the message is posted on a new
\* BroadcastChannel; where the browser defines none, the ReferenceError is
\* caught and dropped.
broadcastMessage(defined, channel, message) ==
    IF defined THEN [posted |-> Append(channel, message), thrown |-> Undefined]
    ELSE [posted |-> channel, thrown |-> Undefined]

\* A variant of announcesUpdate that does not look at the controller.
announcesInstall(state, hasController) == state = "installed"

\* onstatechange, lines 112-113: whether the handler broadcasts.
announcesUpdate(state, hasController) == state = "installed" /\ hasController

\* onstatechange, lines 111-127: what the handler of a worker in `state` leaves
\* on the channel and throws.
onstatechange(state, hasController, defined, channel) ==
    IF announcesUpdate(state, hasController)
    THEN broadcastMessage(defined, channel, UPDATE_BROADCAST)
    ELSE [posted |-> channel, thrown |-> Undefined]

---------------------------------------------------------------------------
(* dateToString (src/unnamed/part_001).  A date is the record of the       *)
(* numbers its getters give.  The formats modelled hold none of the        *)
(* letters l, D, b, z, so the replacements of lines 172-240 find no match. *)

RECURSIVE Zeros(_)
Zeros(n) == IF n <= 0 THEN <<>> ELSE <<"0">> \o Zeros(n - 1)

\* text.padStart(length, '0').
padStart0(text, length) == Zeros(length - Len(text)) \o text

\* text.substr(-1 * length, text.length): the last `length` characters, the whole
\* text when it is shorter.
substrLast(text, length) ==
    IF length >= Len(text) THEN text ELSE SubSeq(text, Len(text) - length + 1, Len(text))

\* useAmPm = !!matchGroup.match(/H/) (line 158).
hasUpperH(matchGroup) == \E i \in 1..Len(matchGroup) : matchGroup[i] = "H"

\* Lines 160-162: (useAmPm && hourNumber > 12) ? hourNumber - 12 : hourNumber.
hourNumberToUse(useAmPm, hourNumber) ==
    IF useAmPm /\ hourNumber > 12 THEN hourNumber - 12 ELSE hourNumber

\* The replacement callbacks of lines 145-170, by the letter of the regex.
replacementOf(letter, matchGroup, date) ==
    CASE letter = "y" -> substrLast(NatToStr(date.year), Len(matchGroup))
      [] letter = "M" -> padStart0(NatToStr(date.month + 1), Len(matchGroup))
      [] letter = "d" -> padStart0(NatToStr(date.date), Len(matchGroup))
      [] letter = "h" -> padStart0(NatToStr(hourNumberToUse(hasUpperH(matchGroup), date.hours)),
                                   Len(matchGroup))
      [] letter = "m" -> padStart0(NatToStr(date.minutes), Len(matchGroup))
      [] letter = "s" -> padStart0(NatToStr(date.seconds), Len(matchGroup))

RECURSIVE replaceRuns(_, _, _, _, _)
\* text.replace(/(x+)/g, callback) from position `from` on: every maximal run of
\* the characters `chars` is replaced by what the callback of `letter` gives.
replaceRuns(text, chars, letter, date, from) ==
    IF FirstOf(text, chars, from) > Len(text) THEN SubSeq(text, from, Len(text))
    ELSE SubSeq(text, from, FirstOf(text, chars, from) - 1)
         \o replacementOf(letter,
                          SubSeq(text, FirstOf(text, chars, from),
                                 FirstNotOf(text, chars, FirstOf(text, chars, from)) - 1),
                          date)
         \o replaceRuns(text, chars, letter, date,
                        FirstNotOf(text, chars, FirstOf(text, chars, from)))

\* The last maximal run of h and H of a text that holds one.
lastHourRun(text) ==
    LET last == CHOOSE i \in 1..Len(text) :
                    /\ text[i] \in {"h", "H"}
                    /\ \A j \in (i + 1)..Len(text) : text[j] \notin {"h", "H"}
        first == CHOOSE i \in 1..last :
                    /\ \A j \in i..last : text[j] \in {"h", "H"}
                    /\ (i > 1 => text[i - 1] \notin {"h", "H"})
    IN  SubSeq(text, first, last)

\* useAmPm after the replacements: false at first (line 140), and set by every
\* call of the callback of line 157, so by the last run of h and H.
useAmPmAfter(text) ==
    IF \A i \in 1..Len(text) : text[i] \notin {"h", "H"} THEN FALSE
    ELSE hasUpperH(lastHourRun(text))

\* The text the hours are replaced in: the format after the replacements of the
\* years, the months and the days (lines 144-155).
beforeHours(format, date) ==
    replaceRuns(replaceRuns(replaceRuns(format, {"y", "Y"}, "y", date, 1),
                            {"M"}, "M", date, 1),
                {"d"}, "d", date, 1)

\* Lines 144-170: the chain of replacements, in the order of the source.
replacedFormat(format, date) ==
    replaceRuns(replaceRuns(replaceRuns(beforeHours(format, date),
                                        {"h", "H"}, "h", date, 1),
                            {"m"}, "m", date, 1),
                {"s"}, "s", date, 1)

\* Lines 243-245: ` ${hourNumber > 12 ? 'PM' : 'AM'}` when useAmPm is set.
amPmSuffix(useAmPm, hourNumber) ==
    IF ~useAmPm THEN <<>>
    ELSE IF hourNumber > 12 THEN <<" ", "P", "M">> ELSE <<" ", "A", "M">>

\* dateToString(date, format): date.toString() without a format (line 127).
dateToString(date, format) ==
    IF Len(format) = 0 THEN [k |-> "Date.toString", v |-> date]
    ELSE Str(replacedFormat(format, date)
             \o amPmSuffix(useAmPmAfter(beforeHours(format, date)), date.hours))

---------------------------------------------------------------------------
(* The inputs the calls are drawn from                                     *)

\* The number of key=value pairs in a query string drawn as input.
MaxPairs == 2
\* The number of entries in an object drawn as input.
MaxEntries == 2
\* The number of rows in a matrix drawn as input.
MaxRows == 2

QueryKeys == { <<"a">>, <<"b">>, <<"v", "a", "l", "u", "e", "O", "f">> }

\* The value texts of the pairs of a query string.
QueryValues ==
    { <<>>,
      <<"x">>,
      <<"1">>,
      <<"2">>,
      <<"1", "2", "3">>,
      <<"a", "b", "c">>,
      <<"t", "r", "u", "e">>,
      <<"1", ",", "2", ",", "3">>,
      <<"x", "%", "2", "C", "y">>,
      <<"{", "}">>,
      <<"[", "1">> }

PairTexts == { key \o <<"=">> \o value : key \in QueryKeys, value \in QueryValues }

\* The texts of n pairs joined by "&", for every n up to MaxPairs.
QueryTexts ==
    UNION { { Join(pairs, <<"&">>) : pairs \in [1..n -> PairTexts] } : n \in 0..MaxPairs }

HashTexts == { <<>>, <<"#", "h">> }

\* Strings that are not of the shape "?" pairs "#" hash.
OtherStrings ==
    { <<>>,
      <<"a", "=", "1">>,
      <<"/", "p", "?", "a", "=", "1">>,
      <<"#", "h", "?", "a", "=", "1">>,
      <<"?", "a", "=", "1", "#", "h", "#", "g">>,
      <<"?", "%", "2", "3", "=", "x", "#", "h">>,
      <<"?", "a", "=", "1", "\n", "#", "h">>,
      <<"?", "a", "+", "b", "=", "x", "+", "y", "&", "&", "2", "=", "z", "&", "1", "=", "z">> }

StringInputs ==
    { <<"?">> \o query \o hash : query \in QueryTexts, hash \in HashTexts } \cup OtherStrings

\* The delimiter option: absent, or a string.
Delimiters == { Undefined, Str(<<",">>), Str(<<>>) }

EntryKeys == { <<"a">>, <<"b">>, <<"#">> }

\* The values of the entries of an object.
EntryValues ==
    { Str(<<"b">>),
      Str(<<"1">>),
      Str(<<"x", " ", "&", "y">>),
      Str(<<"h", "#", "g">>),
      Str(<<>>),
      Num(1),
      Bool(TRUE),
      Null,
      Undefined,
      Arr(<<>>),
      Arr(<<Str(<<"x">>)>>),
      Arr(<<Str(<<"x">>), Str(<<"x">>)>>),
      Arr(<<Num(1), Num(2)>>),
      Arr(<<Str(<<"x">>), Str(<<"y", ",", "z">>), Null>>),
      Obj(<<<<<<"b">>, Num(1)>>>>) }

\* The objects of up to MaxEntries entries with distinct keys, in every key order.
ObjectInputs ==
    UNION { { Obj([i \in 1..n |-> <<keys[i], values[i]>>]) :
                keys \in { ks \in [1..n -> EntryKeys] :
                            \A i, j \in 1..n : i # j => ks[i] # ks[j] },
                values \in [1..n -> EntryValues] } : n \in 0..MaxEntries }

\* The rows of a matrix: pairs, a row without a value, a string, and a row that is
\* not iterable.
MatrixRows ==
    { Arr(<<Str(<<"a">>), Str(<<"x">>)>>),
      Arr(<<Str(<<"a">>), Num(1)>>),
      Arr(<<Str(<<"b">>), Arr(<<Num(1), Num(2)>>)>>),
      Arr(<<Str(<<"b">>), Obj(<<<<<<"c">>, Bool(TRUE)>>>>)>>),
      Arr(<<Str(<<"a">>)>>),
      Str(<<"a", "b">>),
      Num(7) }

MatrixInputs == UNION { { Arr(rows) : rows \in [1..n -> MatrixRows] } : n \in 0..MaxRows }

\* Inputs that are neither a string, an array nor an object; undefined stands for
\* the argument left out.
OtherInputs ==
    { Undefined, Null, Num(5), Bool(FALSE), Func(<<"f">>), [k |-> "symbol", v |-> 0] }

---------------------------------------------------------------------------
(* The calls of the codec                                                  *)

NoCall == [op |-> "none"]

\* The URL of the page while the codec is called.
PageUrl == <<"h", "t", "t", "p", ":", "/", "/", "x", ".", "y", "/", "p", "?", "a", "=", "1", "#", "h">>

\* No time has passed, no timer is set, no closure has run.
TimersAtRest ==
    /\ now = 0
    /\ timers = {}
    /\ timeout = Undefined
    /\ wasCalled = FALSE
    /\ trace = <<>>

\* The names of the assets the bundle holds.
ImageNames == { <<"a">>, <<"b">> }

\* No image is cached, no import is in progress.
AssetsAtRest ==
    /\ importImageAsyncCache = [name \in ImageNames |-> Undefined]
    /\ promises = <<>>

\* No service worker is registered, none controls the page, nothing is posted.
WorkerAtRest ==
    /\ registered = "none"
    /\ workers = <<>>
    /\ controller = FALSE
    /\ hasBroadcastChannel = TRUE
    /\ posted = <<>>
    /\ uncaught = <<>>

\* No call of the URL utilities is in progress, on the page of PageUrl.
CodecAtRest ==
    /\ pc = "idle"
    /\ call = NoCall
    /\ result = Undefined
    /\ location = PageUrl
    /\ history = <<>>
    /\ argument = Undefined

Init ==
    /\ CodecAtRest
    /\ TimersAtRest
    /\ AssetsAtRest
    /\ WorkerAtRest
    /\ callOnFirstFuncCall = FALSE

\* getQueryParams(input, { delimiter }) is called and returns or throws.
CallGetQueryParams(input, delimiter) ==
    /\ pc = "idle"
    /\ pc' = "returned"
    /\ call' = [op |-> "getQueryParams", input |-> input, delimiter |-> delimiter]
    /\ result' = getQueryParams(input, delimiter, SearchHashOf(location))
    /\ argument' = argumentAfter(input)
    /\ UNCHANGED <<location, history>>
    /\ UNCHANGED outsideCodec

\* getQueryParams on a string: the decode direction.
DecodeString == \E s \in StringInputs, d \in Delimiters : CallGetQueryParams(Str(s), d)

\* getQueryParams on an object: the encode direction.
EncodeObject == \E o \in ObjectInputs, d \in Delimiters : CallGetQueryParams(o, d)

\* getQueryParams on a 2D matrix.
DecodeMatrix == \E m \in MatrixInputs, d \in Delimiters : CallGetQueryParams(m, d)

\* getQueryParams on anything else, and without an argument.
CallWithOther == \E x \in OtherInputs, d \in Delimiters : CallGetQueryParams(x, d)

\* The caller takes the result; the next call may start.
Return ==
    /\ pc = "returned"
    /\ pc' = "idle"
    /\ call' = NoCall
    /\ result' = Undefined
    /\ argument' = Undefined
    /\ UNCHANGED <<location, history>>
    /\ UNCHANGED outsideCodec

Next == DecodeString \/ EncodeObject \/ DecodeMatrix \/ CallWithOther \/ Return

Spec == Init /\ [][Next]_vars

---------------------------------------------------------------------------
(* The calls of modifyQueryParams                                          *)

\* The number of URLs pushed on the history.
MaxHistory == 2

NavKeys == { Str(<<"a">>), Str(<<"b">>) }

\* The values given with a key; undefined stands for the argument left out.
NavValues == { Str(<<"x">>), Undefined }

\* The falsy values besides undefined.
FalsyValues == { Null, Str(<<>>), Num(0), Bool(FALSE) }

\* The objects and the null given as key.
NavObjects ==
    { Obj(<<>>),
      Obj(<<<<<<"b">>, Str(<<"x">>)>>>>),
      Obj(<<<<<<"a">>, Arr(<<Str(<<"x">>), Str(<<"y">>)>>)>>, <<<<"#">>, Str(<<"g">>)>>>>),
      Null }

\* The url option: left out, and URLs of another and of the page's origin with
\* query params of their own.
NavUrls ==
    { Undefined,
      Str(<<"h", "t", "t", "p", "s", ":", "/", "/", "z", ".", "w", "/", "q", "/", "?", "c", "=", "3">>),
      Str(<<"h", "t", "t", "p", ":", "/", "/", "x", ".", "y", "/", "r", "?", "c", "=", "3", "#", "t">>) }

NavFlags == { Undefined, Bool(TRUE) }

NavOptions ==
    [url : NavUrls, overwriteQueryParams : NavFlags, pushOnHistory : NavFlags,
     returnUrl : NavFlags]

\* The call ends: the caller holds what it returned or threw, the page is at the
\* outcome's URL, and the history holds that URL when it was pushed.
Leave(outcome) ==
    /\ pc' = "returned"
    /\ result' = outcome.returned
    /\ location' = outcome.href
    /\ history' = IF outcome.pushed THEN Append(history, outcome.href) ELSE history
    /\ UNCHANGED outsideCodec

\* Line 297 has given `segments`: the rest of the call.
LeaveWithSegments(segments, key, value, options) ==
    /\ argument' = keyAfter(segments, key, options.overwriteQueryParams)
    /\ Leave(modifyWithSegments(segments, key, value, options, location))

\* modifyQueryParams(key, value, options) is called and returns or throws.
CallModifyQueryParams(key, value, options) ==
    /\ pc = "idle"
    /\ Truthy(options.pushOnHistory) => Len(history) < MaxHistory
    /\ call' = [op |-> "modifyQueryParams", key |-> key, value |-> value,
                options |-> options, href |-> location]
    /\ LeaveWithSegments(getUrlSegments(options.url, location), key, value, options)

\* modifyQueryParams with a string key.
ModifyByKey ==
    \E key \in NavKeys, value \in NavValues, options \in NavOptions :
        CallModifyQueryParams(key, value, options)

\* modifyQueryParams with a string key and a falsy value, on the URL of the page.
DeleteByKey ==
    \E key \in NavKeys, value \in FalsyValues, options \in NavOptions :
        /\ options.url = Undefined
        /\ CallModifyQueryParams(key, value, options)

\* modifyQueryParams with an object of key-value pairs.
ModifyByObject ==
    \E key \in NavObjects, options \in NavOptions :
        CallModifyQueryParams(key, Undefined, options)

\* A call that leaves the page where it is returns or throws.
ReturnFrom(thisCall, returned) ==
    /\ pc = "idle"
    /\ pc' = "returned"
    /\ call' = thisCall
    /\ result' = returned
    /\ argument' = Str(thisCall.url)
    /\ UNCHANGED <<location, history>>
    /\ UNCHANGED outsideCodec

\* getUrlSegments(url) on the page where the calls before left it.
SegmentsOnPage ==
    \E url \in NavUrls \ { Undefined } :
        ReturnFrom([op |-> "getUrlSegments", url |-> url.v], getUrlSegments(url, location))

\* getQueryParams with an object, on the page where the calls before left it.
EncodeOnPage == \E input \in NavObjects : CallGetQueryParams(input, Undefined)

\* getQueryParams without an argument: the query params of the page.
DecodePage == CallGetQueryParams(Undefined, Undefined)

NextNav ==
    \/ ModifyByKey
    \/ DeleteByKey
    \/ ModifyByObject
    \/ EncodeOnPage
    \/ DecodePage
    \/ SegmentsOnPage
    \/ Return

SpecNav == Init /\ [][NextNav]_vars

---------------------------------------------------------------------------
(* The calls on URL strings                                                *)

UrlProtocols == { <<>>, <<"h", "t", "t", "p", ":", "/", "/">>, <<"H", "T", "T", "P", "S", ":", "/", "/">> }

\* Domain names and dotted quads.
UrlHosts ==
    { <<"x", ".", "c", "o", "m">>,
      <<"l", "o", "c", "a", "l", "h", "o", "s", "t">>,
      <<"n", "o", "t", "l", "o", "c", "a", "l", "h", "o", "s", "t", ".", "c", "o", "m">>,
      <<"1", "0", ".", "x", ".", "c", "o", "m">>,
      <<"1", ".", "2", ".", "3", ".", "4", "4", ".", "x", ".", "c", "o", "m">>,
      <<"1", "2", "7", ".", "0", ".", "0", ".", "1">>,
      <<"1", "9", "2", ".", "1", "6", "8", ".", "0", ".", "1">>,
      <<"8", ".", "8", ".", "8", ".", "8">> }

\* No port, a port, and a number that is too large for one.
UrlPorts == { <<>>, <<":", "8", "0", "8", "0">>, <<":", "9", "9", "9", "9", "9">> }

UrlPaths == { <<>>, <<"/">>, <<"/", "a", "/">>, <<"/", "a", "/", "b", "/", "c">> }

\* What follows the path: a query, a hash, a "/" in them, a line break in the hash.
UrlTails ==
    { <<>>,
      <<"?", "q", "=", "1">>,
      <<"?", "q", "=", "1", "/", "2">>,
      <<"?", "p", "=", "/", "#", "h">>,
      <<"#", "h", "\n">> }

UrlInputs ==
    { protocol \o host \o port \o path \o tail :
        protocol \in UrlProtocols, host \in UrlHosts, port \in UrlPorts,
        path \in UrlPaths, tail \in UrlTails }

IpOptions == [onlyLocalhost : NavFlags, includeLocalhostDomain : { Undefined, Bool(FALSE) }]

\* getUrlSegments(url).
CallGetUrlSegments ==
    \E url \in UrlInputs :
        ReturnFrom([op |-> "getUrlSegments", url |-> url], getUrlSegments(Str(url), location))

\* isIpAddress(url, options).
CallIsIpAddress ==
    \E url \in UrlInputs, options \in IpOptions :
        ReturnFrom([op |-> "isIpAddress", url |-> url, options |-> options],
                   isIpAddress(url, options, location))

\* extractFinalPathnameSegmentFromUrl(url).
CallExtractFinalPathnameSegment ==
    \E url \in UrlInputs :
        ReturnFrom([op |-> "extractFinalPathnameSegmentFromUrl", url |-> url],
                   Str(extractFinalPathnameSegmentFromUrl(url)))

NextUrl == CallGetUrlSegments \/ CallIsIpAddress \/ CallExtractFinalPathnameSegment \/ Return

SpecUrl == Init /\ [][NextUrl]_vars

---------------------------------------------------------------------------
(* The calls of dateToString                                               *)

\* The dates: 2024-01-05, every hour of the day, 07 and 30 minutes, 09 seconds.
DateInputs ==
    { [year |-> 2024, month |-> 0, date |-> 5, hours |-> h, minutes |-> m, seconds |-> 9] :
        h \in 0..23, m \in {7, 30} }

\* 'hh:mm', 'HH:mm', 'h', 'H', 'hH', 'HH hh', 'hh HH', 'yyyy-MM-dd HH:mm:ss', ''.
DateFormats ==
    { <<"h", "h", ":", "m", "m">>,
      <<"H", "H", ":", "m", "m">>,
      <<"h">>,
      <<"H">>,
      <<"h", "H">>,
      <<"H", "H", " ", "h", "h">>,
      <<"h", "h", " ", "H", "H">>,
      <<"y", "y", "y", "y", "-", "M", "M", "-", "d", "d", " ", "H", "H", ":", "m", "m", ":", "s", "s">>,
      <<>> }

\* dateToString(date, format) is called and returns.
CallDateToString ==
    \E date \in DateInputs, format \in DateFormats :
        /\ pc = "idle"
        /\ pc' = "returned"
        /\ call' = [op |-> "dateToString", date |-> date, format |-> format]
        /\ result' = dateToString(date, format)
        /\ argument' = Undefined
        /\ UNCHANGED <<location, history>>
        /\ UNCHANGED outsideCodec

NextDate == CallDateToString \/ Return

SpecDate == Init /\ [][NextDate]_vars

---------------------------------------------------------------------------
(* The calls of a debounced and of a throttled function                    *)

Delay == 2

TimeLimit == 2

MaxCalls == 3

MaxTime == 7

\* The arguments the wrappers are called with.
CallArgs == { "a", "b" }

\* debounce(func, Delay, { callOnFirstFuncCall }) has returned the wrapper.
InitDebounce ==
    /\ CodecAtRest
    /\ TimersAtRest
    /\ AssetsAtRest
    /\ WorkerAtRest
    /\ callOnFirstFuncCall \in BOOLEAN

\* How many calls the trace holds.
CallsIn(events) == Cardinality({ i \in 1..Len(events) : events[i].e = "call" })

\* A millisecond passes, when no timer is due.
Tick ==
    /\ now < MaxTime
    /\ DueTimers(timers, now) = {}
    /\ now' = now + 1
    /\ UNCHANGED <<outsideTimers, timers, timeout, wasCalled, callOnFirstFuncCall, trace>>

\* The debounced function is called with `args` (lines 57-88): it clears the
\* timer it holds, sets a new one, and on a first call invokes func, which
\* returns or throws.
DebouncedCall ==
    \E args \in CallArgs, threw \in BOOLEAN :
        /\ CallsIn(trace) < MaxCalls
        /\ now + Delay <= MaxTime
        /\ ~isFirstCallOf(callOnFirstFuncCall, timeout) => ~threw
        /\ timers' = clearTimeout(timers, timeout)
                        \cup { debounceTimer(Len(trace) + 1, now, Delay,
                                             isFirstCallOf(callOnFirstFuncCall, timeout), args) }
        /\ timeout' = Num(Len(trace) + 1)
        /\ trace' = IF isFirstCallOf(callOnFirstFuncCall, timeout)
                     THEN trace \o <<CallEvent(now, args), FuncEvent(now, args, "call", threw)>>
                     ELSE Append(trace, CallEvent(now, args))
        /\ UNCHANGED <<outsideTimers, now, wasCalled, callOnFirstFuncCall>>

\* A due timer of the debounced function runs (lines 68-74): it sets timeout to
\* null and, unless it was set by a first call, invokes func.
DebounceTimerFires ==
    \E t \in DueTimers(timers, now), threw \in BOOLEAN :
        /\ t.isFirstCall => ~threw
        /\ timers' = timers \ { t }
        /\ timeout' = Null
        /\ trace' = IF t.isFirstCall THEN Append(trace, TimerEvent(now))
                     ELSE trace \o <<TimerEvent(now), FuncEvent(now, t.args, "timer", threw)>>
        /\ UNCHANGED <<outsideTimers, now, wasCalled, callOnFirstFuncCall>>

NextDebounce == DebouncedCall \/ DebounceTimerFires \/ Tick

\* The event loop runs a due timer, and time passes.
SpecDebounce ==
    /\ InitDebounce
    /\ [][NextDebounce]_vars
    /\ WF_vars(DebounceTimerFires)
    /\ WF_vars(Tick)

\* throttle(func, TimeLimit) has returned the wrapper.
InitThrottle ==
    /\ CodecAtRest
    /\ TimersAtRest
    /\ AssetsAtRest
    /\ WorkerAtRest
    /\ callOnFirstFuncCall = FALSE

\* The throttled function is called with `args` (lines 101-125): when wasCalled
\* is not set it sets it, invokes func and, when func has returned, sets the
\* timer that resets it; otherwise it does nothing.
ThrottledCall ==
    \E args \in CallArgs, threw \in BOOLEAN :
        /\ CallsIn(trace) < MaxCalls
        /\ now + TimeLimit <= MaxTime
        /\ wasCalled => ~threw
        /\ wasCalled' = TRUE
        /\ trace' = IF wasCalled THEN Append(trace, CallEvent(now, args))
                     ELSE trace \o <<CallEvent(now, args), FuncEvent(now, args, "call", threw)>>
        /\ timers' = IF wasCalled \/ threw THEN timers
                      ELSE timers \cup { throttleTimer(Len(trace) + 1, now, TimeLimit) }
        /\ UNCHANGED <<outsideTimers, now, timeout, callOnFirstFuncCall>>

\* A due timer of the throttled function runs (lines 112-114).
ThrottleTimerFires ==
    \E t \in DueTimers(timers, now) :
        /\ timers' = timers \ { t }
        /\ wasCalled' = FALSE
        /\ trace' = Append(trace, TimerEvent(now))
        /\ UNCHANGED <<outsideTimers, now, timeout, callOnFirstFuncCall>>

NextThrottle == ThrottledCall \/ ThrottleTimerFires \/ Tick

SpecThrottle ==
    /\ InitThrottle
    /\ [][NextThrottle]_vars
    /\ WF_vars(ThrottleTimerFires)
    /\ WF_vars(Tick)

---------------------------------------------------------------------------
(* The calls of importAssetAsync and importImageAsync                      *)

MaxPromises == 3

\* The paths the two functions are called with.
AssetPaths == { Null, Str(<<>>) } \cup { Str(name) : name \in ImageNames }

\* What a module loader, fetch and a FileReader reject with.
ChunkLoadError == Throw("Error", <<"Cannot find module">>)
FetchError == Throw("TypeError", <<"Failed to fetch">>)

\* The calls standing at the await `at`.
StandingAt(at) == { i \in 1..Len(promises) : promises[i].at = at }

\* importImageAsync(image, base64) is called and runs to its first await
\* (lines 271-280).
CallImportImageAsync ==
    \E image \in AssetPaths, base64 \in BOOLEAN :
        /\ Len(promises) < MaxPromises
        /\ promises' = Append(promises, importImageAsync(importImageAsyncCache, image, base64))
        /\ UNCHANGED <<codecVars, timerVars, workerVars, importImageAsyncCache>>

\* importAssetAsync(assetRelPath, base64) is called and runs to its first
\* await (lines 18-28).
CallImportAssetAsync ==
    \E assetRelPath \in AssetPaths, base64 \in BOOLEAN :
        /\ Len(promises) < MaxPromises
        /\ promises' = Append(promises, importAssetAsync(assetRelPath, base64))
        /\ UNCHANGED <<codecVars, timerVars, workerVars, importImageAsyncCache>>

\* The dynamic import a call awaits resolves, and the call runs to its next
\* await or to its return (lines 29-35; 281-284 and 302-308).
ImportResolves ==
    \E i \in StandingAt("import") :
        /\ promises' = [promises EXCEPT ![i] = afterImport(promises[i])]
        /\ importImageAsyncCache' = cacheAfterImport(importImageAsyncCache, promises[i])
        /\ UNCHANGED <<codecVars, timerVars, workerVars>>

\* The dynamic import a call awaits rejects (lines 36-41, 309-314).
ImportRejects ==
    \E i \in StandingAt("import") :
        /\ promises' = [promises EXCEPT ![i] = Rejected(promises[i], ChunkLoadError)]
        /\ UNCHANGED <<codecVars, timerVars, workerVars, importImageAsyncCache>>

\* fetch(imageSrc) and res.blob() resolve, and the FileReader starts to read
\* (line 284 to 292).
FetchResolves ==
    \E i \in StandingAt("fetch") :
        /\ promises' = [promises EXCEPT ![i].at = "read"]
        /\ UNCHANGED <<codecVars, timerVars, workerVars, importImageAsyncCache>>

\* fetch(imageSrc) or res.blob() rejects (lines 284, 309-314).
FetchRejects ==
    \E i \in StandingAt("fetch") :
        /\ promises' = [promises EXCEPT ![i] = Rejected(promises[i], FetchError)]
        /\ UNCHANGED <<codecVars, timerVars, workerVars, importImageAsyncCache>>

\* reader.onload runs: the call caches the data URL and returns it (lines
\* 286-288, 295-300).
ReaderLoads ==
    \E i \in StandingAt("read") :
        /\ importImageAsyncCache' =
                cacheWith(importImageAsyncCache, promises[i].path,
                          readAsDataURL(promises[i].imageSrc), promises[i].base64)
        /\ promises' = [promises EXCEPT
                            ![i] = Fulfilled(promises[i], readAsDataURL(promises[i].imageSrc), "import")]
        /\ UNCHANGED <<codecVars, timerVars, workerVars>>

\* reader.onerror runs: rej() rejects with undefined (lines 289-291, 309-314).
ReaderFails ==
    \E i \in StandingAt("read") :
        /\ promises' = [promises EXCEPT ![i] = Rejected(promises[i], Undefined)]
        /\ UNCHANGED <<codecVars, timerVars, workerVars, importImageAsyncCache>>

\* fetchAsBase64(assetSrc) resolves and importAssetAsync returns its value
\* (line 32).
FetchAsBase64Resolves ==
    \E i \in StandingAt("fetchAsBase64") :
        /\ promises' = [promises EXCEPT
                            ![i] = Fulfilled(promises[i], fetchAsBase64(promises[i].imageSrc), "import")]
        /\ UNCHANGED <<codecVars, timerVars, workerVars, importImageAsyncCache>>

\* fetchAsBase64(assetSrc) rejects (lines 32, 36-41).
FetchAsBase64Rejects ==
    \E i \in StandingAt("fetchAsBase64") :
        /\ promises' = [promises EXCEPT ![i] = Rejected(promises[i], FetchError)]
        /\ UNCHANGED <<codecVars, timerVars, workerVars, importImageAsyncCache>>

NextAssets ==
    \/ CallImportImageAsync
    \/ CallImportAssetAsync
    \/ ImportResolves
    \/ ImportRejects
    \/ FetchResolves
    \/ FetchRejects
    \/ ReaderLoads
    \/ ReaderFails
    \/ FetchAsBase64Resolves
    \/ FetchAsBase64Rejects

SpecAssets == Init /\ [][NextAssets]_vars

---------------------------------------------------------------------------
(* The events of a service worker registration                             *)

MaxWorkers == 3

\* registerValidSW(swUrl) has called navigator.serviceWorker.register, on a
\* page a worker controls or not, in a browser with BroadcastChannel or not.
InitWorker ==
    /\ CodecAtRest
    /\ TimersAtRest
    /\ AssetsAtRest
    /\ callOnFirstFuncCall = FALSE
    /\ registered = "pending"
    /\ workers = <<>>
    /\ controller \in BOOLEAN
    /\ hasBroadcastChannel \in BOOLEAN
    /\ posted = <<>>
    /\ uncaught = <<>>

\* The promise of register resolves: registration.onupdatefound is set (lines
\* 108-109).
RegisterResolves ==
    /\ registered = "pending"
    /\ registered' = "resolved"
    /\ UNCHANGED <<codecVars, timerVars, assetVars,
                   workers, controller, hasBroadcastChannel, posted, uncaught>>

\* The promise of register rejects: the error is logged (lines 130-132).
RegisterRejects ==
    /\ registered = "pending"
    /\ registered' = "rejected"
    /\ UNCHANGED <<codecVars, timerVars, assetVars,
                   workers, controller, hasBroadcastChannel, posted, uncaught>>

\* The registration gets a new installing worker and fires updatefound; the
\* handler, when set, sets the worker's onstatechange (lines 109-111).
UpdateFound ==
    /\ Len(workers) < MaxWorkers
    /\ \A w \in 1..Len(workers) : workers[w].state # "installing"
    /\ workers' = Append(workers, [state |-> "installing",
                                   onstatechange |-> (registered = "resolved")])
    /\ UNCHANGED <<codecVars, timerVars, assetVars,
                   registered, controller, hasBroadcastChannel, posted, uncaught>>

\* A worker changes state and fires statechange; its handler, when set, runs
\* (lines 111-127).
StateChange ==
    \E w \in 1..Len(workers) :
        \E state \in NextStates(workers[w].state) :
            /\ workers' = [workers EXCEPT ![w].state = state]
            /\ posted' = IF workers[w].onstatechange
                          THEN onstatechange(state, controller, hasBroadcastChannel, posted).posted
                          ELSE posted
            /\ uncaught' =
                  IF workers[w].onstatechange
                     /\ onstatechange(state, controller, hasBroadcastChannel, posted).thrown # Undefined
                  THEN Append(uncaught,
                              onstatechange(state, controller, hasBroadcastChannel, posted).thrown)
                  ELSE uncaught
            /\ UNCHANGED <<codecVars, timerVars, assetVars,
                           registered, controller, hasBroadcastChannel>>

\* An activated worker takes control of the page.
ControllerChange ==
    /\ ~controller
    /\ \E w \in 1..Len(workers) : workers[w].state = "activated"
    /\ controller' = TRUE
    /\ UNCHANGED <<codecVars, timerVars, assetVars,
                   registered, workers, hasBroadcastChannel, posted, uncaught>>

NextWorker ==
    RegisterResolves \/ RegisterRejects \/ UpdateFound \/ StateChange \/ ControllerChange

SpecWorker == InitWorker /\ [][NextWorker]_vars

---------------------------------------------------------------------------
(* Properties of the codec                                                 *)

\* A call of getQueryParams has returned, and its input was of kind `kind`.
ReturnedFrom(kind) ==
    /\ pc = "returned"
    /\ call.op = "getQueryParams"
    /\ call.input.k = kind

\* The percent-decoded <<key, value>> entries of the query part of a string.
EntriesOf(str) == URLSearchParamsOfString(Split(queryParamHashStringOf(str), <<"#">>)[1])

\* The hash part of a string that has one ("" otherwise).
HashOf(str) ==
    LET parts == Split(queryParamHashStringOf(str), <<"#">>)
    IN  IF Len(parts) >= 2 THEN parts[2] ELSE <<>>

RECURSIVE ValuesOfKey(_, _)
\* The values of the entries of `key`, in the order of the entries.
ValuesOfKey(entries, key) ==
    IF Len(entries) = 0 THEN <<>>
    ELSE (IF entries[1][1] = key THEN <<entries[1][2]>> ELSE <<>>)
         \o ValuesOfKey(Tail(entries), key)

KeysOf(entries) == { entries[i][1] : i \in 1..Len(entries) }

\* What JSON.parse makes of a text, and the text itself when it is no JSON.
ParsedOrVerbatim(raw) == IF IsThrow(JSONparse(raw)) THEN Str(raw) ELSE JSONparse(raw)

TextAX == <<"?", "a", "=", "x", "&", "a", "=", "x">>
KeyA == <<"a">>

\* C3 as stated: given a string, getQueryParams returns that same string unchanged.
C3_StringPassesThrough ==
    ReturnedFrom("string") => result = call.input

\* C3 as amended: given a string, getQueryParams never hands the string back; it
\* decodes it and returns an object, with the hash under "#" and one key for every
\* key of the query part.
C3_StringIsDecoded ==
    ReturnedFrom("string") =>
        /\ result.k = "object"
        /\ \A key \in KeysOf(EntriesOf(call.input.v)) : HasOwn(result.v, key)
        /\ (Len(HashOf(call.input.v)) > 0 => HasOwn(result.v, <<"#">>))

C3_Witness ==
    /\ ReturnedFrom("string")
    /\ Len(EntriesOf(call.input.v)) = 2
    /\ Len(HashOf(call.input.v)) > 0
    /\ Len(result.v) = 3

\* C4 as stated: decode('?a=x&a=x') yields { a: 'x' }, a scalar.
C4_DuplicateGivesScalar ==
    (ReturnedFrom("string") /\ call.input.v = TextAX /\ call.delimiter = Undefined)
        => result = Obj(<<<<KeyA, Str(<<"x">>)>>>>)

\* How many times a value occurs in a sequence.
Occurrences(xs, x) == Cardinality({i \in 1..Len(xs) : xs[i] = x})

\* C4 as amended: decode('?a=x&a=x') yields { a: ['x'] }; a key that appears
\* several times, each time with the same string, number or boolean, maps to a
\* sequence that holds that value once, never to the scalar.
C4_DuplicateGivesOneElementSequence ==
    (ReturnedFrom("string") /\ call.delimiter = Undefined) =>
        /\ (call.input.v = TextAX => result = Obj(<<<<KeyA, Arr(<<Str(<<"x">>)>>)>>>>))
        /\ \A key \in KeysOf(EntriesOf(call.input.v)) :
              LET raws == ValuesOfKey(EntriesOf(call.input.v), key)
              IN  (/\ Len(raws) >= 2
                   /\ \A i \in 1..Len(raws) : raws[i] = raws[1]
                   /\ ParsedOrVerbatim(raws[1]).k \in {"string", "number", "boolean"})
                  => /\ IsArray(GetOwn(result.v, key))
                     /\ Occurrences(GetOwn(result.v, key).v, ParsedOrVerbatim(raws[1])) = 1

C4_Witness ==
    /\ ReturnedFrom("string")
    /\ call.input.v = TextAX
    /\ call.delimiter = Undefined
    /\ GetOwn(result.v, KeyA) = Arr(<<Str(<<"x">>)>>)

RECURSIVE Distinct(_)
\* The values of a sequence in first-seen order, each value once.
Distinct(xs) ==
    IF Len(xs) = 0 THEN <<>>
    ELSE LET init == Distinct(SubSeq(xs, 1, Len(xs) - 1))
         IN  IF \E i \in 1..Len(init) : init[i] = xs[Len(xs)]
             THEN init ELSE Append(init, xs[Len(xs)])

\* C5: decoding without a delimiter, a key that appears once maps to its single
\* parsed value, and a key that appears several times maps to the sequence of its
\* parsed values in first-seen order, no value twice.  (The key "#", which the
\* hash shares, is left aside.)
C5_DecodeWithoutDelimiter ==
    (ReturnedFrom("string") /\ call.delimiter = Undefined) =>
        \A key \in KeysOf(EntriesOf(call.input.v)) \ {<<"#">>} :
            LET raws == ValuesOfKey(EntriesOf(call.input.v), key)
                parsed == [i \in 1..Len(raws) |-> ParsedOrVerbatim(raws[i])]
            IN  GetOwn(result.v, key) =
                    IF Len(raws) = 1 THEN parsed[1] ELSE Arr(Distinct(parsed))

TextA123 == <<"?", "a", "=", "1", ",", "2", ",", "3">>

\* C6: decoding with a (non-empty) delimiter, the value of a key that appears once
\* is the sequence of the JSON-parsed parts of its text when the text contains the
\* delimiter, and the single parsed value when it does not;
\* decode('?a=1,2,3', { delimiter: ',' }) gives { a: [1, 2, 3] }.
C6_DecodeWithDelimiter ==
    (ReturnedFrom("string") /\ call.delimiter.k = "string" /\ Len(call.delimiter.v) > 0) =>
        /\ (call.input.v = TextA123 /\ call.delimiter.v = <<",">>)
              => result = Obj(<<<<KeyA, Arr(<<Num(1), Num(2), Num(3)>>)>>>>)
        /\ \A key \in KeysOf(EntriesOf(call.input.v)) \ {<<"#">>} :
              LET raws == ValuesOfKey(EntriesOf(call.input.v), key)
                  parts == Split(raws[1], call.delimiter.v)
              IN  Len(raws) = 1 =>
                      GetOwn(result.v, key) =
                          IF \E i \in 1..Len(raws[1]) : OccursAt(raws[1], call.delimiter.v, i)
                          THEN Arr([i \in 1..Len(parts) |-> ParsedOrVerbatim(parts[i])])
                          ELSE ParsedOrVerbatim(raws[1])

\* C7: decoding parses every scalar value as JSON when it is valid JSON ('123' is
\* the number 123, 'true' the boolean) and keeps it verbatim otherwise ('abc'); a
\* value that is no JSON never makes getQueryParams throw.
C7_LenientValueParsing ==
    /\ (pc = "returned" /\ IsThrow(result)) => result.v[1] # "SyntaxError"
    /\ (ReturnedFrom("string") /\ call.delimiter = Undefined) =>
          /\ ~IsThrow(result)
          /\ \A i \in 1..Len(EntriesOf(call.input.v)) :
                LET key == EntriesOf(call.input.v)[i][1]
                    raw == EntriesOf(call.input.v)[i][2]
                    got == GetOwn(result.v, key)
                    want == IF IsThrow(JSONparse(raw)) THEN Str(raw) ELSE JSONparse(raw)
                IN  /\ got = want \/ (IsArray(got) /\ \E j \in 1..Len(got.v) : got.v[j] = want)
                    /\ raw = <<"1", "2", "3">> => want = Num(123)
                    /\ raw = <<"t", "r", "u", "e">> => want = Bool(TRUE)
                    /\ raw = <<"a", "b", "c">> => want = Str(raw)

C7_Witness ==
    /\ ReturnedFrom("string")
    /\ call.delimiter = Undefined
    /\ Len(EntriesOf(call.input.v)) = 2
    /\ EntriesOf(call.input.v)[1] = <<KeyA, <<"[", "1">>>>
    /\ EntriesOf(call.input.v)[2] = <<<<"b">>, <<"1", "2", "3">>>>
    /\ result = Obj(<<<<KeyA, Str(<<"[", "1">>)>>, <<<<"b">>, Num(123)>>>>)

\* Whether a matrix is a sequence of pairs.
IsSequenceOfPairs(x) ==
    /\ IsArray(x)
    /\ \A i \in 1..Len(x.v) : IsArray(x.v[i]) /\ Len(x.v[i].v) = 2

\* C8: getQueryParams throws the TypeError that names the received type exactly
\* when the input is neither a string, a mapping nor a sequence of pairs (number,
\* boolean, function, symbol, null); on a string, a mapping or a sequence of pairs
\* it throws no TypeError.  A call without input decodes the page's URL.
C8_TypeErrorExactlyOnOtherInputs ==
    (pc = "returned" /\ call.op = "getQueryParams") =>
        /\ call.input.k \in {"number", "boolean", "function", "symbol", "null"}
              => result = UnsupportedTypeError(TypeOf(call.input))
        /\ (call.input.k \in {"string", "object", "undefined"} \/ IsSequenceOfPairs(call.input))
              => ~(IsThrow(result) /\ result.v[1] = "TypeError")

\* One percent-encoded pair key=value.
PairText(key, value) ==
    encodeURIComponent(key) \o <<"=">> \o encodeURIComponent(ToStr(value))

\* The percent-encoded pairs an entry stands for: one per element of a sequence
\* when no delimiter is given, one pair otherwise.
PairsOfEntry(key, value, delimiter) ==
    IF IsArray(value) /\ ~Truthy(delimiter)
    THEN [i \in 1..Len(value.v) |-> PairText(key, value.v[i])]
    ELSE <<encodeEntry(key, value, delimiter)>>

RECURSIVE PairsOfEntries(_, _)
PairsOfEntries(entries, delimiter) ==
    IF Len(entries) = 0 THEN <<>>
    ELSE PairsOfEntry(entries[1][1], entries[1][2], delimiter)
         \o PairsOfEntries(Tail(entries), delimiter)

\* "#" and the hash, when the object has a "#" entry that is not empty.
HashSuffix(entries) ==
    IF HasOwn(entries, <<"#">>) /\ Truthy(GetOwn(entries, <<"#">>))
    THEN <<"#">> \o ToStr(GetOwn(entries, <<"#">>))
    ELSE <<>>

\* C9: the string of an object is "?" and the "&"-joined percent-encoded pairs when
\* the object has a key other than "#" (nothing otherwise), then "#" and the hash
\* exactly when the "#" entry is not empty; the "#" entry is never a pair.
C9_ShapeOfEncodedString ==
    ReturnedFrom("object") =>
        LET others == DeleteOwn(call.input.v, <<"#">>)
        IN  result = Str((IF Len(others) = 0 THEN <<>>
                          ELSE <<"?">> \o Join(PairsOfEntries(others, call.delimiter), <<"&">>))
                         \o HashSuffix(call.input.v))

RECURSIVE RepeatedPairs(_, _)
\* key=v1&...&key=vn.
RepeatedPairs(key, values) ==
    IF Len(values) = 0 THEN <<>>
    ELSE IF Len(values) = 1 THEN PairText(key, values[1])
    ELSE PairText(key, values[1]) \o <<"&">> \o RepeatedPairs(key, Tail(values))

\* The text C10 gives a sequence-valued entry.
SequenceText(key, values, delimiter) ==
    IF Truthy(delimiter)
    THEN PairText(key, Str(ArrayJoin(values, delimiter.v)))
    ELSE RepeatedPairs(key, values)

\* C10: a key with the values [v1..vn] is written as the n pairs key=v1&...&key=vn
\* in sequence order when no delimiter is given (or an empty one), and as the one
\* pair of the values joined by the delimiter when one is; the texts of the entries
\* follow "?" in the order of the entries, "&" between them.
C10_SequenceValuedEntries ==
    ReturnedFrom("object") =>
        LET others == DeleteOwn(call.input.v, <<"#">>)
            text(i) == IF IsArray(others[i][2])
                       THEN SequenceText(others[i][1], others[i][2].v, call.delimiter)
                       ELSE encodeEntry(others[i][1], others[i][2], call.delimiter)
        IN  Len(others) > 0 =>
                result = Str(<<"?">> \o Join([i \in 1..Len(others) |-> text(i)], <<"&">>)
                             \o HashSuffix(call.input.v))

C10_Witness ==
    /\ ReturnedFrom("object")
    /\ call.input = Obj(<<<<KeyA, Arr(<<Str(<<"x">>), Str(<<"y", ",", "z">>), Null>>)>>,
                          <<<<"b">>, Arr(<<Num(1), Num(2)>>)>>>>)
    /\ \/ /\ call.delimiter = Undefined
          /\ result = Str(<<"?", "a", "=", "x", "&", "a", "=", "y", "%", "2", "C", "z", "&",
                            "a", "=", "n", "u", "l", "l", "&", "b", "=", "1", "&", "b", "=", "2">>)
       \/ /\ call.delimiter = Str(<<",">>)
          /\ result = Str(<<"?", "a", "=", "x", "%", "2", "C", "y", "%", "2", "C", "z", "%", "2", "C",
                            "&", "b", "=", "1", "%", "2", "C", "2">>)

\* A string that looks like a number or a boolean, taken as that number or boolean.
NormalizeScalar(x) ==
    IF x.k = "string" /\ ParsedOrVerbatim(x.v).k \in {"number", "boolean"}
    THEN ParsedOrVerbatim(x.v) ELSE x

Normalize(x) ==
    IF IsArray(x) THEN Arr([i \in 1..Len(x.v) |-> NormalizeScalar(x.v[i])])
    ELSE NormalizeScalar(x)

\* Two objects with the same keys and, up to Normalize, the same values.
EquivalentMaps(a, b) ==
    /\ KeysOf(a) = KeysOf(b)
    /\ \A key \in KeysOf(a) : Normalize(GetOwn(a, key)) = Normalize(GetOwn(b, key))

\* What decoding makes of an encoded string.
DecodedAgain(encoded) == getQueryParams(encoded, Undefined, <<>>)

\* C1: decoding the string that encoding gave for a mapping yields an equivalent
\* mapping, up to strings that look like numbers or booleans.
C1_RoundTrip ==
    (ReturnedFrom("object") /\ call.delimiter = Undefined) =>
        /\ DecodedAgain(result).k = "object"
        /\ EquivalentMaps(call.input.v, DecodedAgain(result).v)

\* The map modifyQueryParams has after its modification, and the string of it.
ModifiedOf(c) ==
    modifiedQueryParams(getQueryParams(Undefined, Undefined, SearchHashOf(c.href)),
                        c.key, c.value, c.options.overwriteQueryParams)

\* C2: modifyQueryParams returns the result of the modification, the modified map
\* by default and with returnUrl the URL origin + pathname + encoded modified map,
\* for every key, value and overwriteQueryParams, with pushOnHistory and without.
C2_ReturnsTheModification ==
    (pc = "returned" /\ call.op = "modifyQueryParams" /\ ~IsThrow(result)) =>
        IF Truthy(call.options.returnUrl)
        THEN result = Str(getUrlSegments(call.options.url, call.href).origin
                          \o getUrlSegments(call.options.url, call.href).pathname
                          \o ToStr(getQueryParams(ModifiedOf(call), Undefined, <<>>)))
        ELSE result = ModifiedOf(call)

\* The text that stands for a value that is no sequence: nothing for null and
\* undefined, the JSON text of an object, the string form of anything else.
TextOfValue(value) ==
    IF value.k \in {"null", "undefined"} THEN <<>>
    ELSE IF value.k = "object" THEN JSONstringify(value)
    ELSE ToStr(value)

\* C11: for every key whose value is no sequence the pair is the percent-encoded
\* key, "=", and the percent-encoding of "" when the value is null or undefined,
\* of its JSON text when it is an object, and of its string form otherwise.
C11_NonSequenceValues ==
    ReturnedFrom("object") =>
        LET others == DeleteOwn(call.input.v, <<"#">>)
            text(i) == IF IsArray(others[i][2])
                       THEN encodeEntry(others[i][1], others[i][2], call.delimiter)
                       ELSE encodeURIComponent(others[i][1]) \o <<"=">>
                            \o encodeURIComponent(TextOfValue(others[i][2]))
        IN  Len(others) > 0 =>
                result = Str(<<"?">> \o Join([i \in 1..Len(others) |-> text(i)], <<"&">>)
                             \o HashSuffix(call.input.v))

C11_Witness ==
    /\ ReturnedFrom("object")
    /\ call.input = Obj(<<<<KeyA, Null>>, <<<<"b">>, Obj(<<<<<<"b">>, Num(1)>>>>)>>>>)
    /\ result = Str(<<"?", "a", "=", "&", "b", "=", "%", "7", "B", "%", "2", "2", "b", "%", "2", "2",
                      "%", "3", "A", "1", "%", "7", "D">>)

---------------------------------------------------------------------------
(* Properties of the calls on URL strings                                  *)

ReturnedFromUrlCall(op) == pc = "returned" /\ call.op = op

EndsWith(s, c) == Len(s) > 0 /\ s[Len(s)] = c

StartsWith(s, c) == Len(s) > 0 /\ s[1] = c

\* Whether a "/" stands immediately before a "?", a "#" or the end of the string.
HasSlashBeforeQuery(s) ==
    \/ EndsWith(s, "/")
    \/ \E i \in 1..(Len(s) - 1) : s[i] = "/" /\ s[i + 1] \in {"?", "#"}

\* C12: for every URL the origin and the pathname getUrlSegments returns do not
\* end with "/", the fullUrl has no "/" immediately before a "?", a "#" or its
\* end, the protocol holds no ":" and no "/", and the queryString and the hash do
\* not start with "?" and "#".
C12_SegmentsAreNormalized ==
    (ReturnedFromUrlCall("getUrlSegments") /\ ~IsThrow(result)) =>
        /\ ~EndsWith(result.origin, "/")
        /\ ~EndsWith(result.pathname, "/")
        /\ ~HasSlashBeforeQuery(result.fullUrl)
        /\ \A i \in 1..Len(result.protocol) : result.protocol[i] \notin {":", "/"}
        /\ ~StartsWith(result.queryString, "?")
        /\ ~StartsWith(result.hash, "#")

\* C13: getUrlSegments never throws: on a string the URL parser rejects and the
\* regex does not match it still returns segments.
C13_GetUrlSegmentsNeverThrows ==
    ReturnedFromUrlCall("getUrlSegments") => ~IsThrow(result)

\* The part of a URL text before its query and hash.
BeforeQuery(url) == SubSeq(url, 1, FirstOf(url, {"?", "#"}, 1) - 1)

\* The text after the last "/" of a text that holds one.
AfterLastSlash(text) ==
    SubSeq(text,
           1 + CHOOSE i \in 1..Len(text) :
                   text[i] = "/" /\ \A j \in (i + 1)..Len(text) : text[j] # "/",
           Len(text))

\* C19: extractFinalPathnameSegmentFromUrl returns the text between the last "/"
\* of the path and the start of the query or hash (or the end), which is "" when
\* the path ends with "/", also when the query or the hash holds a "/".
C19_FinalPathnameSegment ==
    (/\ ReturnedFromUrlCall("extractFinalPathnameSegmentFromUrl")
     /\ \E i \in 1..Len(BeforeQuery(call.url)) : BeforeQuery(call.url)[i] = "/")
        => result = Str(AfterLastSlash(BeforeQuery(call.url)))

\* The host of a URL text: what stands after the "://" and before the port, the
\* path, the query and the hash.
HostOfText(url) ==
    LET from == IF ProtocolPrefixEnd(url, FirstOf(url, {"/"}, 1)) > 0
                THEN ProtocolPrefixEnd(url, FirstOf(url, {"/"}, 1)) + 1 ELSE 1
    IN  SubSeq(url, from, FirstOf(url, {":", "/", "?", "#"}, from) - 1)

\* Four runs of one to three digits with "." between them.
IsDottedQuad(host) ==
    LET parts == SplitNonEmpty(host, <<".">>)
    IN  /\ Len(parts) = 4
        /\ \A i \in 1..4 :
              /\ Len(parts[i]) \in 1..3
              /\ \A j \in 1..Len(parts[i]) : IsDigit(parts[i][j])

\* The loopback range 127/8 and the private ranges 10/8, 172.16/12, 192.168/16.
IsLoopbackOrPrivate(host) ==
    LET parts == SplitNonEmpty(host, <<".">>)
    IN  /\ IsDottedQuad(host)
        /\ \/ StrToNat(parts[1]) \in {10, 127}
           \/ StrToNat(parts[1]) = 172 /\ StrToNat(parts[2]) \in 16..31
           \/ StrToNat(parts[1]) = 192 /\ StrToNat(parts[2]) = 168

\* C20: isIpAddress(url) is true exactly when the host is a dotted quad; with
\* onlyLocalhost it is true exactly when the host is an address of the loopback
\* or a private range or, unless includeLocalhostDomain is false, the domain
\* localhost.
C20_IsIpAddress ==
    ReturnedFromUrlCall("isIpAddress") =>
        IF Truthy(call.options.onlyLocalhost)
        THEN result = Bool(\/ IsLoopbackOrPrivate(HostOfText(call.url))
                           \/ /\ call.options.includeLocalhostDomain # Bool(FALSE)
                              /\ ToLowerCase(HostOfText(call.url))
                                    = <<"l", "o", "c", "a", "l", "h", "o", "s", "t">>)
        ELSE result = Bool(IsDottedQuad(HostOfText(call.url)))

---------------------------------------------------------------------------
(* Properties of modifyQueryParams                                         *)

ReturnedFromModify == pc = "returned" /\ call.op = "modifyQueryParams"

\* The query params of the page the call was made on.
BaselineOf(c) == getQueryParams(Undefined, Undefined, SearchHashOf(c.href))

\* The keys the key and value arguments name.
ArgumentKeys(c) ==
    IF c.key.k = "string" THEN { c.key.v } ELSE KeysOf(OwnEntries(c.key))

\* The origin + pathname of the segments of the URL a call names.
OriginAndPathname(segments) == segments.origin \o segments.pathname

TargetOf(c) == OriginAndPathname(getUrlSegments(c.options.url, c.href))

\* The text after the first `n` characters.
TextAfter(text, n) == SubSeq(text, n + 1, Len(text))

\* The map a call's result shows: the result itself, or with returnUrl the query
\* params of the URL after the origin and pathname `target`.
ShownMap(c, returned, target) ==
    IF Truthy(c.options.returnUrl)
    THEN getQueryParams(Str(TextAfter(returned.v, Len(target))), Undefined, <<>>)
    ELSE returned

\* The result starts with `target` when it is a URL, and shows keys of `known` only.
ShowsTargetAndKnownKeys(c, returned, target, known) ==
    /\ Truthy(c.options.returnUrl) => SubSeq(returned.v, 1, Len(target)) = target
    /\ KeysOf(ShownMap(c, returned, target).v) \subseteq known

NewUrlOf(c, map) == Str(TargetOf(c) \o ToStr(getQueryParams(map, Undefined, <<>>)))

\* With returnUrl the call has returned the URL of `map`, unless it threw.
ReturnsUrlOf(c, returned, map) ==
    (Truthy(c.options.returnUrl) /\ ~IsThrow(returned)) => returned = NewUrlOf(c, map)

\* `merged` has every entry of `mapping`, every entry of `baseline` under another
\* key, and no other key.
IsMergeOf(merged, baseline, mapping) ==
    /\ KeysOf(merged) = KeysOf(baseline) \cup KeysOf(mapping)
    /\ \A k \in KeysOf(mapping) : GetOwn(merged, k) = GetOwn(mapping, k)
    /\ \A k \in KeysOf(baseline) \ KeysOf(mapping) : GetOwn(merged, k) = GetOwn(baseline, k)

MergesOrOverwrites(c, returned, modified, baseline) ==
    /\ IF Truthy(c.options.overwriteQueryParams) THEN modified = c.key
       ELSE IsMergeOf(modified.v, baseline.v, c.key.v)
    /\ ReturnsUrlOf(c, returned, modified)

\* C15: with a mapping as key and without overwriteQueryParams the map that is
\* encoded has every key of the mapping with the mapping's value and every other
\* key of the page with the page's value, and no other key; with
\* overwriteQueryParams it is the mapping.  The URL returned with returnUrl is
\* the one of that map.
C15_MappingMergesOrOverwrites ==
    (ReturnedFromModify /\ call.key.k = "object") =>
        MergesOrOverwrites(call, result, ModifiedOf(call), BaselineOf(call))

\* The mapping { a: ['x', 'y'], '#': 'g' } given on the page http://x.y/p?a=1#h
\* has replaced both the page's `a` and its hash.
C15_Witness ==
    /\ ReturnedFromModify
    /\ call.href = PageUrl
    /\ call.key.k = "object"
    /\ HasOwn(call.key.v, <<"#">>)
    /\ call.options.overwriteQueryParams = Undefined
    /\ call.options.url = Undefined
    /\ result = Str(<<"h", "t", "t", "p", ":", "/", "/", "x", ".", "y", "/", "p",
                      "?", "a", "=", "x", "&", "a", "=", "y", "#", "g">>)

\* `modified` has `key` with `value` when it is truthy and no `key` otherwise.
SetsOrDeletes(modified, key, value) ==
    IF Truthy(value) THEN HasOwn(modified, key) /\ GetOwn(modified, key) = value
    ELSE ~HasOwn(modified, key)

\* Every entry of `baseline` under another key than `key` is in `modified`.
KeepsOthers(modified, baseline, key) ==
    \A k \in KeysOf(baseline) \ { key } :
        HasOwn(modified, k) /\ GetOwn(modified, k) = GetOwn(baseline, k)

SetsOrDeletesKey(c, returned, modified, baseline) ==
    /\ SetsOrDeletes(modified.v, c.key.v, c.value)
    /\ ~Truthy(c.options.overwriteQueryParams) => KeepsOthers(modified.v, baseline.v, c.key.v)
    /\ ReturnsUrlOf(c, returned, modified)

\* C16: with a string key the map that is encoded has the key with the value when
\* the value is truthy and has no such key when it is falsy (undefined, null, '',
\* 0, false); without overwriteQueryParams every other key of the page keeps the
\* page's value.  The URL returned with returnUrl is the one of that map.
C16_StringKeySetsOrDeletes ==
    (ReturnedFromModify /\ call.key.k = "string") =>
        SetsOrDeletesKey(call, result, ModifiedOf(call), BaselineOf(call))

\* modifyQueryParams('a', 0, { returnUrl: true }) on the page http://x.y/p?a=1#h
\* has returned the URL without `a`.
C16_Witness ==
    /\ ReturnedFromModify
    /\ call.href = PageUrl
    /\ call.key = Str(<<"a">>)
    /\ call.value = Num(0)
    /\ call.options.url = Undefined
    /\ result = Str(<<"h", "t", "t", "p", ":", "/", "/", "x", ".", "y", "/", "p", "#", "h">>)

\* C17: a call of modifyQueryParams with pushOnHistory appends exactly one entry
\* to the history, the new URL, which is the URL the page then has; a call without
\* it leaves the history and the location as they were.
C17_PushAppendsOneEntry ==
    [][(pc = "idle" /\ pc' = "returned" /\ call'.op = "modifyQueryParams") =>
          IF Truthy(call'.options.pushOnHistory)
          THEN /\ history' = Append(history, location')
               /\ Truthy(call'.options.returnUrl) => result' = Str(location')
          ELSE /\ history' = history
               /\ location' = location]_vars

\* What a call that pushes nothing returns on the page at `href`.
ReturnedOn(c, href) ==
    IF c.op = "getQueryParams" THEN getQueryParams(c.input, c.delimiter, SearchHashOf(href))
    ELSE IF c.op = "getUrlSegments" THEN getUrlSegments(Str(c.url), href)
    ELSE modifyQueryParams(c.key, c.value, c.options, href).returned

\* The value a call was given.
PassedTo(c) ==
    IF c.op = "getQueryParams" THEN c.input
    ELSE IF c.op = "getUrlSegments" THEN Str(c.url)
    ELSE c.key

---------------------------------------------------------------------------
(* Properties of the regex fallback of getUrlSegments                      *)

\* The protocol marker of returned segments: the protocol and "://", or nothing.
ProtocolMarker(segments) ==
    IF Len(segments.protocol) > 0 THEN segments.protocol \o <<":", "/", "/">> ELSE <<>>

\* The domain and, when there is a port, ":" and the port.
DomainAndPort(segments) ==
    segments.domain \o (IF Len(segments.port) > 0 THEN <<":">> \o segments.port ELSE <<>>)

\* C29: when `new URL` rejects the input and the regex gives the segments, the
\* origin is the protocol marker of the input, when it has one, followed by the
\* domain and, when there is a port, ":" and the port; without a protocol it is
\* domain[:port].
C29_FallbackOrigin ==
    (/\ ReturnedFromUrlCall("getUrlSegments")
     /\ ~ParseURL(call.url).ok
     /\ ~IsThrow(result)) =>
        result.origin = ProtocolMarker(result) \o DomainAndPort(result)

---------------------------------------------------------------------------
(* Properties of dateToString                                              *)

\* Whether `text` ends with `suffix`.
EndsWithText(text, suffix) ==
    /\ Len(text) >= Len(suffix)
    /\ SubSeq(text, Len(text) - Len(suffix) + 1, Len(text)) = suffix

\* The number a text starts with.
LeadingNumber(text) == StrToNat(SubSeq(text, 1, FirstNotOf(text, DigitChars, 1) - 1))

\* C30: when the format holds a run with an uppercase H the result ends with
\* " PM" exactly for the hours 12..23 and with " AM" exactly for the hours 0..11,
\* and the hour printed for 13..23 is the hour - 12; when the format holds only
\* lowercase h the 24-hour value is printed and neither suffix is appended.  (The
\* hour is read at the start of the result, for the formats that start with the
\* hours.)
C30_TwelveHourRendering ==
    (/\ pc = "returned"
     /\ call.op = "dateToString"
     /\ \E i \in 1..Len(call.format) : call.format[i] \in {"h", "H"}) =>
        IF hasUpperH(call.format)
        THEN /\ EndsWithText(result.v, <<" ", "P", "M">>) <=> call.date.hours \in 12..23
             /\ EndsWithText(result.v, <<" ", "A", "M">>) <=> call.date.hours \in 0..11
             /\ (call.date.hours \in 13..23 /\ call.format[1] = "H")
                    => LeadingNumber(result.v) = call.date.hours - 12
        ELSE /\ ~EndsWithText(result.v, <<" ", "P", "M">>)
             /\ ~EndsWithText(result.v, <<" ", "A", "M">>)
             /\ call.format[1] = "h" => LeadingNumber(result.v) = call.date.hours

---------------------------------------------------------------------------
(* Properties of debounce and throttle                                     *)

\* The positions of the events of a kind.
EventsOf(events, kind) == { i \in 1..Len(events) : events[i].e = kind }

\* The last position before i of an event of one of the kinds; 0 if there is none.
LastBefore(events, kinds, i) ==
    IF \E j \in 1..(i - 1) : events[j].e \in kinds
    THEN CHOOSE j \in 1..(i - 1) :
            /\ events[j].e \in kinds
            /\ \A m \in (j + 1)..(i - 1) : events[m].e \notin kinds
    ELSE 0

\* Whether a timer was pending when the event at i happened: of the calls and the
\* timer runs before it, the last was a call.
PendingAt(events, i) ==
    /\ LastBefore(events, {"call", "timer"}, i) > 0
    /\ events[LastBefore(events, {"call", "timer"}, i)].e = "call"

\* The event at i is an invocation of func at the time and with the arguments of
\* the call at j.
IsFuncOf(events, i, j, by) ==
    /\ i <= Len(events)
    /\ events[i].e = "func"
    /\ events[i].by = by
    /\ events[i].args = events[j].args

\* Whether func is invoked between the events at j and at k.
FuncBetween(events, j, k) == \E i \in (j + 1)..(k - 1) : events[i].e = "func"

\* Every invocation of func is made by a timer that runs `delay` after the last
\* call before it, with the arguments of that call, and no timer invokes func
\* twice.
InvokedByTimerOfLastCall(events, delay) ==
    \A i \in EventsOf(events, "func") :
        /\ events[i].by = "timer"
        /\ events[i - 1].e = "timer"
        /\ LastBefore(events, {"call", "timer"}, i - 1) > 0
        /\ events[LastBefore(events, {"call", "timer"}, i - 1)].e = "call"
        /\ IsFuncOf(events, i, LastBefore(events, {"call", "timer"}, i - 1), "timer")
        /\ events[i].at = events[LastBefore(events, {"call", "timer"}, i - 1)].at + delay

\* Of two calls that follow each other, func is invoked between them when the
\* second comes more than `delay` after the first, and is not when it comes less
\* than `delay` after it.
BurstsBySpacing(events, delay) ==
    \A k \in EventsOf(events, "call") :
        LastBefore(events, {"call"}, k) > 0 =>
            /\ events[k].at - events[LastBefore(events, {"call"}, k)].at > delay
                  => FuncBetween(events, LastBefore(events, {"call"}, k), k)
            /\ events[k].at - events[LastBefore(events, {"call"}, k)].at < delay
                  => ~FuncBetween(events, LastBefore(events, {"call"}, k), k)

\* The call that came last has its timer set, due `delay` after it.
LastCallHasTimer(events, pending, delay) ==
    (Len(events) > 0 /\ events[Len(events)].e = "call") =>
        \E t \in pending : t.due = events[Len(events)].at + delay

DebouncedByDefault ==
    ~callOnFirstFuncCall =>
        /\ InvokedByTimerOfLastCall(trace, Delay)
        /\ BurstsBySpacing(trace, Delay)
        /\ LastCallHasTimer(trace, timers, Delay)

FirstCallsInvoke(events) ==
    \A j \in EventsOf(events, "call") :
        IF PendingAt(events, j)
        THEN j = Len(events) \/ events[j + 1].e # "func"
        ELSE IsFuncOf(events, j + 1, j, "call") /\ events[j + 1].at = events[j].at

\* Every timer runs `delay` after the call that set it; the timer of a call that
\* invoked func does not invoke it, the timer of any other call invokes it once,
\* with the arguments of that call.
TimersInvokeForLaterCalls(events, delay) ==
    \A m \in EventsOf(events, "timer") :
        /\ PendingAt(events, m)
        /\ events[m].at = events[LastBefore(events, {"call", "timer"}, m)].at + delay
        /\ IF PendingAt(events, LastBefore(events, {"call", "timer"}, m))
           THEN /\ IsFuncOf(events, m + 1, LastBefore(events, {"call", "timer"}, m), "timer")
                /\ (m + 2 <= Len(events) => events[m + 2].e # "func")
           ELSE m = Len(events) \/ events[m + 1].e # "func"

\* Every invocation of func follows the call or the run of the timer that made it.
InvokedByCallOrTimer(events) ==
    \A i \in EventsOf(events, "func") :
        events[i - 1].e = (IF events[i].by = "call" THEN "call" ELSE "timer")

\* C22: with callOnFirstFuncCall a call made while no timer is pending invokes
\* func at once with its arguments, and the timer it starts does not invoke func
\* again; a call made while a timer is pending invokes func only when the timer
\* runs, once, with the arguments of the last such call.
C22_FirstCallInvokesAtOnce ==
    callOnFirstFuncCall =>
        /\ FirstCallsInvoke(trace)
        /\ TimersInvokeForLaterCalls(trace, Delay)
        /\ InvokedByCallOrTimer(trace)

\* A first call has invoked func at once, two calls have come while its timer and
\* the next were pending, and the timer has invoked func for the last of them.
C22_Witness ==
    /\ callOnFirstFuncCall
    /\ Len(trace) = 6
    /\ trace[1].e = "call"
    /\ trace[2].e = "func"
    /\ trace[2].by = "call"
    /\ trace[3].e = "call"
    /\ trace[4].e = "call"
    /\ trace[4].args # trace[3].args
    /\ trace[5].e = "timer"
    /\ trace[6].e = "func"
    /\ trace[6].args = trace[4].args

\* C23: any two invocations of func are at least `delay` apart, with
\* callOnFirstFuncCall and without it.
C23_InvocationsAreSpaced ==
    \A i, k \in EventsOf(trace, "func") :
        i < k => trace[k].at - trace[i].at >= Delay

\* Whether the call at j invoked func: at once and with its own arguments.
Accepted(events, j) == IsFuncOf(events, j + 1, j, "call") /\ events[j + 1].at = events[j].at

\* The call at j, the last invocation of func before it being at f (0: none):
\* it invokes func when it is the first call or the timer has run since f, and
\* does not when it comes less than `timeLimit` after f.
AcceptedOrDropped(events, j, f, timeLimit) ==
    /\ f = 0 => Accepted(events, j)
    /\ (f > 0 /\ \E m \in (f + 1)..(j - 1) : events[m].e = "timer") => Accepted(events, j)
    /\ (f > 0 /\ events[j].at - events[f].at < timeLimit) => ~Accepted(events, j)

\* C24: the first call of a throttled function and every call after the cooldown
\* timer has run invoke func at once with their own arguments; a call less than
\* timeLimit after a call that invoked func invokes nothing, then or later; two
\* invocations of func are never less than timeLimit apart.
C24_ThrottleOncePerTimeLimit ==
    /\ \A j \in EventsOf(trace, "call") :
          AcceptedOrDropped(trace, j, LastBefore(trace, {"func"}, j), TimeLimit)
    /\ \A i \in EventsOf(trace, "func") : Accepted(trace, i - 1)
    /\ \A i, k \in EventsOf(trace, "func") :
          i < k => trace[k].at - trace[i].at >= TimeLimit

\* A call has invoked func, the next one was dropped, the timer has run, and a
\* third call has invoked func with its own arguments.
C24_Witness ==
    /\ callOnFirstFuncCall = FALSE
    /\ timeout = Undefined
    /\ Len(trace) = 6
    /\ trace[1].e = "call"
    /\ trace[2].e = "func"
    /\ trace[3].e = "call"
    /\ trace[4].e = "timer"
    /\ trace[5].e = "call"
    /\ trace[6].e = "func"
    /\ trace[6].args = trace[5].args
    /\ trace[6].args # trace[2].args

\* C27: wasCalled is set only while a timer that resets it is pending, func
\* throwing or not.
C27_CooldownHasTimer == wasCalled => timers # {}

\* The calls of `fn` whose promise has settled as `at`.
SettledAs(fn, at) == { i \in 1..Len(promises) : promises[i].fn = fn /\ promises[i].at = at }

\* Whether a value is of the kind the flag asks for, for the asset at `path`.
OfRequestedKind(value, path, base64) ==
    IF base64 THEN IsDataURL(value) /\ value = readAsDataURL(moduleDefault(path))
    ELSE ~IsDataURL(value) /\ value = moduleDefault(path)

\* C25: a call of importImageAsync resolves to the image's src path when base64
\* is false and to its Base64 data when base64 is true, however the calls for
\* an image overlap; the cache holds for an image the value of the kind its
\* flag names.
C25_ResolvesToRequestedKind ==
    /\ \A i \in SettledAs("importImageAsync", "fulfilled") :
          OfRequestedKind(promises[i].value, promises[i].path, promises[i].base64)
    /\ \A name \in ImageNames :
          Truthy(importImageAsyncCache[name]) =>
              OfRequestedKind(importImageAsyncCache[name].imageSrc, Str(name),
                              importImageAsyncCache[name].base64)

\* Two calls for one image with different flags overlapped, the one for the
\* src path settling last, and a third call found the cache holding the src
\* path and was asked for it.
C25_Witness ==
    /\ Len(promises) = 3
    /\ promises[1].fn = "importImageAsync"
    /\ promises[2].fn = "importImageAsync"
    /\ promises[3].fn = "importImageAsync"
    /\ promises[1].path = promises[2].path
    /\ promises[1].path = promises[3].path
    /\ promises[1].base64
    /\ ~promises[2].base64
    /\ promises[1].at = "fulfilled"
    /\ promises[2].at = "fulfilled"
    /\ promises[3].at = "fulfilled"
    /\ promises[3].from = "cache"
    /\ promises[1].from = "import"
    /\ promises[2].from = "import"

\* Error(`${path} was not found`).
WasNotFound(path) == Throw("Error", <<ToStr(path), " was not found">>)

\* The asset at `path`: its URL, or its Base64 data.
IsAssetOf(value, path) ==
    value \in { moduleDefault(path), readAsDataURL(moduleDefault(path)) }

\* A call has settled as its arguments and what it awaited require.
SettledWithAssetOrNotFound(p) ==
    /\ ~isGiven(p.path) => p.at = "rejected"
    /\ p.caught # NotCaught => p.at = "rejected"
    /\ p.at = "rejected" => p.value = WasNotFound(p.path)
    /\ p.at = "fulfilled" => isGiven(p.path) /\ IsAssetOf(p.value, p.path)

\* The calls whose promise is rejected.
RejectedCalls(calls) == { i \in 1..Len(calls) : calls[i].at = "rejected" }

BecomesInstalled ==
    \E w \in 1..Len(workers) :
        /\ workers[w].onstatechange
        /\ workers[w].state = "installing"
        /\ workers'[w].state = "installed"

\* C28: UPDATE_BROADCAST is posted only in the step in which an installing
\* worker becomes installed while a worker controls the page; a first install
\* and every other change of state post nothing, and no error leaves the
\* handler, with or without BroadcastChannel.
C28_BroadcastsUpdateOnly ==
    /\ [](uncaught = <<>>)
    /\ [][posted' # posted =>
            /\ posted' = Append(posted, UPDATE_BROADCAST)
            /\ controller
            /\ BecomesInstalled]_vars
    /\ [][(~controller \/ ~BecomesInstalled) => posted' = posted]_vars

\* A first worker was installed and activated with nothing posted, and the
\* install of a second one was broadcast.
C28_Witness ==
    /\ Len(workers) = 2
    /\ workers[1].onstatechange
    /\ workers[1].state = "activated"
    /\ workers[2].state = "installed"
    /\ posted = <<UPDATE_BROADCAST>>

===========================================================================
